---- MODULE Spec2Model ----
(***************************************************************************)
(* A model of the Python services of python-services/services/:            *)
(*   gambit_service.py: the cooperative-game functions                     *)
(*     (_calculate_shapley_values, _find_core_solutions,                   *)
(*     _calculate_nucleolus, solve_cooperative_game) and the normal-form   *)
(*     solver (compute_nash_equilibrium);                                  *)
(*   resource_service.py: search_books and search_videos;                  *)
(*   collaborative_workspace_service.py, enterprise_sso_service.py and     *)
(*     collaborative_notebooks_service.py: the in-memory services.         *)
(*                                                                         *)
(* Numbers: the code computes in IEEE doubles.  The model computes in      *)
(* exact rationals, a value being a record [num, den] with den > 0, and    *)
(* compares by cross-multiplication.  Inputs are small integers, so every  *)
(* quantity of the model is exactly representable; a statement "to within  *)
(* 1e-6" of the code reads as equality here.                               *)
(***************************************************************************)
EXTENDS Integers, Sequences, FiniteSets, TLC

VARIABLES
    players,            \* request.players: a list of player names
    coalition_values,   \* request.coalition_values: coalition key -> worth
    matrix,             \* request.matrix: a list of rows
    game_type,          \* request.game_type
    called,             \* the function that has been invoked, "none" before
    result,             \* what the invocation produced
    invocations,        \* the handler invocations of the running service
    search_query,       \* resource service: the parameter q of a search
    environ,            \* resource service: the API keys of the environment
    api_response,       \* resource service: what the remote API answers
    workspaces,         \* CollaborativeWorkspaceService.workspaces (the ids)
    documents,          \* CollaborativeWorkspaceService.documents
    real_time_updates,  \* CollaborativeWorkspaceService.real_time_updates
    identity_providers, \* EnterpriseSSOService.identity_providers (the ids)
    sso_users,          \* EnterpriseSSOService.sso_users
    active_sessions,    \* EnterpriseSSOService.active_sessions
    saml_sessions,      \* EnterpriseSSOService.saml_sessions (the request ids)
    oauth_sessions,     \* EnterpriseSSOService.oauth_sessions (the states)
    utcnow,             \* the clock read by datetime.utcnow(), in hours
    token_history,      \* the session tokens issued, logged out, found expired
    notebooks,          \* CollaborativeNotebooksService.notebooks
    changes,            \* CollaborativeNotebooksService.changes
    pydantic_major      \* the major version of the installed pydantic

gambit_vars == <<players, coalition_values, matrix, game_type, invocations>>
resource_vars == <<search_query, environ, api_response>>
workspace_vars == <<workspaces, documents, real_time_updates>>
sso_vars ==
    <<identity_providers, sso_users, active_sessions, saml_sessions,
      oauth_sessions, utcnow, token_history>>
notebook_vars == <<notebooks, changes, pydantic_major>>
other_services ==
    <<resource_vars, workspace_vars, sso_vars, notebook_vars>>

vars ==
    <<gambit_vars, called, result, other_services>>

(***************************************************************************)
(* Bounds of the model.                                                    *)
(***************************************************************************)
MaxPlayers == 3     \* longest players list
MaxKeys == 2        \* most entries of a coalition_values map
MaxValue == 1       \* largest coalition worth of the enumerated games

(***************************************************************************)
(* Generic helpers.                                                        *)
(***************************************************************************)
Range(s) == {s[i] : i \in DOMAIN s}

Min(a, b) == IF a <= b THEN a ELSE b

RECURSIVE SumOver(_, _)
SumOver(f, S) ==
    IF S = {} THEN 0
    ELSE LET x == CHOOSE y \in S : TRUE IN f[x] + SumOver(f, S \ {x})

RECURSIVE Factorial(_)
Factorial(k) == IF k <= 0 THEN 1 ELSE k * Factorial(k - 1)

\* Rational numbers.
Rat(n, d) == [num |-> n, den |-> d]
RatEq(a, b) == a.num * b.den = b.num * a.den
RatLeq(a, b) == a.num * b.den <= b.num * a.den

(***************************************************************************)
(* Player names.  Python's sorted() orders names as strings; the names of  *)
(* the model are single capital letters, whose string order is the order   *)
(* of NamePool.                                                            *)
(***************************************************************************)
NamePool == <<"A", "B", "C", "D", "E">>

NameIndex(name) == CHOOSE i \in DOMAIN NamePool : NamePool[i] = name

\* sorted(names): the names of a set in increasing string order.
RECURSIVE sorted(_)
sorted(S) ==
    IF S = {} THEN <<>>
    ELSE LET m == CHOOSE x \in S : \A y \in S : NameIndex(x) <= NameIndex(y)
         IN <<m>> \o sorted(S \ {m})

\* ','.join(names)
RECURSIVE join(_)
join(s) ==
    IF s = <<>> THEN ""
    ELSE IF Len(s) = 1 THEN s[1]
    ELSE s[1] \o "," \o join(Tail(s))

\* '{' + ','.join(sorted(coalition)) + '}'
coalition_str(S) == "{" \o join(sorted(S)) \o "}"

\* dict.get(key, default)
get(d, key, default) == IF key \in DOMAIN d THEN d[key] ELSE default

\* players.index(name): the first position holding name.
index(list, name) ==
    CHOOSE i \in DOMAIN list :
        list[i] = name /\ \A j \in DOMAIN list : list[j] = name => i <= j

(***************************************************************************)
(* What an invocation produces: a returned value or a raised exception.    *)
(***************************************************************************)
Returned(v) == [kind |-> "returned", value |-> v]
Raised(e) == [kind |-> "raised", error |-> e]
NoResult == [kind |-> "none"]

\* The identifiers str(uuid.uuid4()) gives, by what they identify.
uuid4 ==
    [workspace |-> {"w1"}, document |-> {"d1"}, provider |-> {"p1"},
     request |-> {"r1"}, user |-> {"u1", "u2"}, notebook |-> {"n1"},
     cell |-> {"c1", "c2"}]

\* Python's None.
None == [kind |-> "None"]

\* dict operations: d[key] = value and del d[key].
put(d, key, value) ==
    [k \in DOMAIN d \cup {key} |-> IF k = key THEN value ELSE d[k]]

del(d, key) == [k \in DOMAIN d \ {key} |-> d[k]]

\* The services other than the solver, as constructed and before any call.
resource_idle ==
    /\ search_query = <<>>
    /\ environ = [GOOGLE_BOOKS_API_KEY |-> "", YOUTUBE_API_KEY |-> ""]
    /\ api_response = NoResult

\* The three in-memory services as their constructors leave them.
in_memory_services_init ==
    /\ workspaces = {}
    /\ documents = <<>>
    /\ real_time_updates = <<>>
    /\ identity_providers = {}
    /\ sso_users = <<>>
    /\ active_sessions = <<>>
    /\ saml_sessions = {}
    /\ oauth_sessions = {}
    /\ utcnow = 0
    /\ token_history = [issued |-> {}, logged_out |-> {}, found_expired |-> {}]
    /\ notebooks = <<>>
    /\ changes = <<>>

other_services_idle ==
    /\ resource_idle
    /\ in_memory_services_init
    /\ pydantic_major = 1

\* The names bound in the module's global namespace after its imports and
\* top-level statements (gambit and nashpy installed).  A function body
\* resolves a free name here; a name that is not bound raises NameError.
ModuleGlobals ==
    {"APIRouter", "HTTPException", "BackgroundTasks", "BaseModel", "Field",
     "List", "Dict", "Any", "Optional", "logging", "np", "json", "Path",
     "sys", "os", "gambit", "nash", "logger", "router"}

(***************************************************************************)
(* _calculate_shapley_values                                               *)
(***************************************************************************)
\* itertools.permutations(players): every ordering of the list's positions.
permutations(list) ==
    LET n == Len(list)
        P == {f \in [1..n -> 1..n] : \A i, j \in 1..n : f[i] = f[j] => i = j}
    IN {[i \in 1..n |-> list[f[i]]] : f \in P}

\* A variant that takes the permutation as an order of arrival: the worth
\* of the players up to and including `player`, less the worth of those
\* before it.
marginal_contribution_prefix(coalition, player, cv) ==
    LET at == CHOOSE i \in DOMAIN coalition : coalition[i] = player
    IN get(cv, coalition_str({coalition[i] : i \in 1..at}), 0)
          - get(cv, coalition_str({coalition[i] : i \in 1..(at - 1)}), 0)

\* The marginal contribution the loop body computes for one permutation.
marginal_contribution(coalition, player, cv) ==
    get(cv, coalition_str(Range(coalition)), 0)
        - get(cv, coalition_str(Range(coalition) \ {player}), 0)

\* The value accumulated for one player: each permutation adds
\* marginal_contribution / (n * (n-1)!).
shapley_accumulate(list, cv, player) ==
    LET n == Len(list)
        perms == permutations(list)
        terms == [c \in perms |-> marginal_contribution(c, player, cv)]
    IN Rat(SumOver(terms, perms), n * Factorial(n - 1))

\* The loop body names math.factorial, and the module never imports math:
\* its first execution raises NameError.  An empty players list never
\* enters the loop.
_calculate_shapley_values(list, cv) ==
    IF list = <<>> THEN Returned(<<>>)
    ELSE IF "math" \notin ModuleGlobals THEN Raised("NameError")
    ELSE Returned([p \in Range(list) |-> shapley_accumulate(list, cv, p)])

(***************************************************************************)
(* _find_core_solutions                                                    *)
(*                                                                         *)
(* scipy.optimize.linprog(c, A_ub, b_ub, A_eq, b_eq, bounds) minimises     *)
(* c @ x subject to A_ub @ x <= b_ub, A_eq @ x == b_eq and the bounds.     *)
(* The objective of the code is zero, so every feasible point is optimal   *)
(* and the point returned is the solver's choice: the model lets it be any *)
(* feasible point with integer coordinates.  With up to three players and  *)
(* integer worths this loses nothing: given the equality, every row bounds *)
(* one variable from above or from below, so the feasible set is a box cut *)
(* by the equality and is empty or holds an integer point.  A constraint   *)
(* is a record [row, rhs]: one row of the matrix with its right-hand side. *)
(***************************************************************************)
\* bounds=[(0, None)] * n: the lower bound of every variable.
bounds_lower == 0

Dot(row, x) == SumOver([i \in DOMAIN row |-> row[i] * x[i]], DOMAIN row)

\* A variant that builds the grand coalition key from the players list as
\* given, without sorting it.
eq_constraint_unsorted(list, cv) ==
    [row |-> [i \in 1..Len(list) |-> 1],
     rhs |-> get(cv, "{" \o join(list) \o "}", 0)]

\* A_eq, b_eq: the grand coalition constraint.
eq_constraint(list, cv) ==
    [row |-> [i \in 1..Len(list) |-> 1],
     rhs |-> get(cv, coalition_str(Range(list)), 0)]

\* A variant in which a player whose singleton key is absent gets no row:
\* an absent coalition constrains nothing.
individual_constraints_present(list, cv) ==
    {[row |-> [i \in 1..Len(list) |-> IF i = index(list, list[k]) THEN 1 ELSE 0],
      rhs |-> cv["{" \o list[k] \o "}"]] :
        k \in {m \in 1..Len(list) : ("{" \o list[m] \o "}") \in DOMAIN cv}}

\* The rows appended to A_ub, b_ub by the individual rationality loop.
individual_constraints(list, cv) ==
    {[row |-> [i \in 1..Len(list) |-> IF i = index(list, list[k]) THEN 1 ELSE 0],
      rhs |-> get(cv, "{" \o list[k] \o "}", 0)] : k \in 1..Len(list)}

\* itertools.combinations(players, r) for r in range(2, n): the position
\* sets of 2..n-1 players.
combinations(list) ==
    {c \in SUBSET (1..Len(list)) :
        Cardinality(c) >= 2 /\ Cardinality(c) <= Len(list) - 1}

\* The members of a set of positive integers in increasing order.
RECURSIVE InOrder(_)
InOrder(S) ==
    IF S = {} THEN <<>>
    ELSE LET m == CHOOSE x \in S : \A y \in S : x <= y
         IN <<m>> \o InOrder(S \ {m})

\* A variant that builds a coalition's key from its members in the order of
\* the players list, without sorting them.
coalition_constraints_unsorted(list, cv) ==
    {[row |-> [i \in 1..Len(list) |->
                 IF \E k \in c : index(list, list[k]) = i THEN 1 ELSE 0],
      rhs |-> get(cv, "{" \o join([m \in 1..Cardinality(c) |->
                                      list[InOrder(c)[m]]]) \o "}", 0)] :
        c \in combinations(list)}

\* The rows appended to A_ub, b_ub by the coalition loop.
coalition_constraints(list, cv) ==
    {[row |-> [i \in 1..Len(list) |->
                 IF \E k \in c : index(list, list[k]) = i THEN 1 ELSE 0],
      rhs |-> get(cv, coalition_str({list[k] : k \in c}), 0)] :
        c \in combinations(list)}

ub_constraints(list, cv) ==
    individual_constraints(list, cv) \cup coalition_constraints(list, cv)

\* The largest value variable i can take: the least right-hand side of the
\* rows of ub that bound x[i] alone, and what the equality leaves when all
\* other variables sit at the lower bound.
variable_cap(ub, eq, lower, i) ==
    LET n == Len(eq.row)
        top == eq.rhs - (n - 1) * lower
        caps == {c.rhs : c \in {d \in ub :
                    \A j \in 1..n : d.row[j] = (IF j = i THEN 1 ELSE 0)}}
    IN IF caps = {} THEN top
       ELSE Min(top, CHOOSE m \in caps : \A o \in caps : m <= o)

\* The points with integer coordinates inside the variables' ranges.
RECURSIVE grid_points(_, _, _, _)
grid_points(ub, eq, lower, k) ==
    IF k = 0 THEN {<<>>}
    ELSE {Append(x, v) : x \in grid_points(ub, eq, lower, k - 1),
                         v \in lower..variable_cap(ub, eq, lower, k)}

\* The points linprog can return; none when the program is infeasible.
linprog(ub, eq, lower) ==
    {x \in grid_points(ub, eq, lower, Len(eq.row)) :
        /\ \A c \in ub : Dot(c.row, x) <= c.rhs
        /\ Dot(eq.row, x) = eq.rhs
        /\ \A i \in DOMAIN x : x[i] >= lower}

\* linprog validates its arguments before solving: an objective c with no
\* entries (no players) raises ValueError.
linprog_raises(eq) == Len(eq.row) = 0

\* {player: float(result.x[i]) for i, player in enumerate(players)}
allocation(list, x) == [p \in Range(list) |-> x[index(list, p)]]

\* The lists _find_core_solutions can return: the empty list when linprog
\* raises (the bare except), one allocation when result.success, the empty
\* list otherwise.
_find_core_solutions(list, cv) ==
    LET feasible == linprog(ub_constraints(list, cv), eq_constraint(list, cv),
                            bounds_lower)
    IN IF linprog_raises(eq_constraint(list, cv)) THEN {<<>>}
       ELSE IF feasible = {} THEN {<<>>}
       ELSE {<<allocation(list, x)>> : x \in feasible}

(***************************************************************************)
(* _calculate_nucleolus                                                    *)
(***************************************************************************)
\* A variant that returns the all-zero allocation whatever the core holds.
nucleolus_of_zero(list, core_solutions) == [p \in Range(list) |-> 0]

\* What the function returns when its call of _find_core_solutions
\* returned core_solutions.
nucleolus_of(list, core_solutions) ==
    IF core_solutions # <<>> THEN core_solutions[1]
    ELSE [p \in Range(list) |-> 0]

_calculate_nucleolus(list, cv) ==
    {nucleolus_of(list, core) : core \in _find_core_solutions(list, cv)}

(***************************************************************************)
(* solve_cooperative_game                                                  *)
(*                                                                         *)
(* linprog is deterministic: the call of _find_core_solutions inside       *)
(* _calculate_nucleolus returns what the handler's own call returned.      *)
(***************************************************************************)
HTTPException(status, detail) ==
    [kind |-> "raised", error |-> "HTTPException", status_code |-> status,
     detail |-> detail]

ComputationResponse(data) ==
    [kind |-> "returned", value |-> [success |-> TRUE, data |-> data]]

solve_cooperative_game(list, cv) ==
    LET shapley_values == _calculate_shapley_values(list, cv)
    IN IF shapley_values.kind = "raised"
       THEN {HTTPException(500, shapley_values.error)}
       ELSE {ComputationResponse(
                [shapley_values |-> shapley_values.value,
                 core_solutions |-> core,
                 nucleolus |-> nucleolus_of(list, core),
                 players |-> list,
                 coalition_values |-> cv,
                 game_type |-> "cooperative"]) :
             core \in _find_core_solutions(list, cv)}

(***************************************************************************)
(* The cooperative games of the model.                                     *)
(***************************************************************************)
FirstNames(n) == {NamePool[i] : i \in 1..n}

\* The players lists over the first n names: in sorted order, reversed and
\* rotated by one.
PlayerLists(n) ==
    {[i \in 1..n |-> NamePool[i]],
     [i \in 1..n |-> NamePool[n + 1 - i]],
     [i \in 1..n |-> NamePool[(i % n) + 1]]}

\* The keys of all coalitions of a set of names, the empty one included.
AllKeys(S) == {coalition_str(T) : T \in SUBSET S}

\* The key sets of the enumerated maps: at most MaxKeys coalition keys.
KeySets(S) == {L \in SUBSET AllKeys(S) : Cardinality(L) <= MaxKeys}

\* The three-player game with an empty core: every pair is worth 90, the
\* grand coalition 100 and every single player 0.
EmptyCoreGame ==
    [players |-> <<"A", "B", "C">>,
     coalition_values |->
        [k \in AllKeys({"A", "B", "C"}) \ {"{}"} |->
            IF k = "{A,B,C}" THEN 100
            ELSE IF k \in {"{A,B}", "{A,C}", "{B,C}"} THEN 90
            ELSE 0]]

\* The game in which a coalition of k players is worth w[k].
SymmetricGame(S, w) ==
    [k \in AllKeys(S) \ {"{}"} |->
        w[Cardinality(CHOOSE T \in SUBSET S : coalition_str(T) = k)]]

(***************************************************************************)
(* The cooperative solver as a state machine: a game arrives, and one of   *)
(* the four functions is invoked on it.  The games are the empty-core      *)
(* game and, for every players list of 0..MaxPlayers names, the maps with  *)
(* at most MaxKeys entries of worth 0..MaxValue and the symmetric games    *)
(* with worths 0..MaxValue.  The keys of a map name coalitions of the      *)
(* listed players; with an empty players list they name coalitions of a    *)
(* player that is not listed.                                              *)
(***************************************************************************)
InitCoop ==
    /\ \/ /\ players = EmptyCoreGame.players
          /\ coalition_values = EmptyCoreGame.coalition_values
       \/ \E n \in 0..MaxPlayers :
             /\ players \in PlayerLists(n)
             /\ \/ \E K \in KeySets(FirstNames(IF n = 0 THEN 1 ELSE n)) :
                      coalition_values \in [K -> 0..MaxValue]
                \/ \E w \in [1..n -> 0..MaxValue] :
                      coalition_values = SymmetricGame(FirstNames(n), w)
    /\ matrix = <<>>
    /\ game_type = "cooperative"
    /\ called = "none"
    /\ result = NoResult
    /\ invocations = <<>>
    /\ other_services_idle

Call_calculate_shapley_values ==
    /\ called = "none"
    /\ called' = "_calculate_shapley_values"
    /\ result' = _calculate_shapley_values(players, coalition_values)
    /\ UNCHANGED <<gambit_vars, other_services>>

Call_find_core_solutions ==
    /\ called = "none"
    /\ called' = "_find_core_solutions"
    /\ \E core \in _find_core_solutions(players, coalition_values) :
          result' = Returned(core)
    /\ UNCHANGED <<gambit_vars, other_services>>

Call_calculate_nucleolus ==
    /\ called = "none"
    /\ called' = "_calculate_nucleolus"
    /\ \E nucleolus \in _calculate_nucleolus(players, coalition_values) :
          result' = Returned(nucleolus)
    /\ UNCHANGED <<gambit_vars, other_services>>

Call_solve_cooperative_game ==
    /\ called = "none"
    /\ called' = "solve_cooperative_game"
    /\ \E response \in solve_cooperative_game(players, coalition_values) :
          result' = response
    /\ UNCHANGED <<gambit_vars, other_services>>

NextCoop ==
    \/ Call_calculate_shapley_values
    \/ Call_find_core_solutions
    \/ Call_calculate_nucleolus
    \/ Call_solve_cooperative_game

SpecCoop == InitCoop /\ [][NextCoop]_vars

(***************************************************************************)
(* The same functions on sparse games: maps that give a worth of           *)
(* 1..MaxValue to at most one coalition and, or not, to the grand          *)
(* coalition, for every players list of 0..MaxPlayers names.               *)
(***************************************************************************)
SparseMaps(S) ==
    LET grand == coalition_str(S)
        one == {[k \in {key} |-> v] :
                   key \in AllKeys(S), v \in 1..MaxValue}
        two == {[k \in {key, grand} |-> IF k = grand THEN w ELSE v] :
                   key \in AllKeys(S) \ {grand}, v \in 1..MaxValue,
                   w \in 1..MaxValue}
    IN {<<>>} \cup one \cup two

InitCoopSparse ==
    /\ \E n \in 0..MaxPlayers :
          /\ players \in PlayerLists(n)
          /\ coalition_values \in SparseMaps(FirstNames(n))
    /\ matrix = <<>>
    /\ game_type = "cooperative"
    /\ called = "none"
    /\ result = NoResult
    /\ invocations = <<>>
    /\ other_services_idle

SpecCoopSparse == InitCoopSparse /\ [][NextCoop]_vars

(***************************************************************************)
(* compute_nash_equilibrium                                                *)
(*                                                                         *)
(* The handler hands request.matrix to nashpy: nash.Game(A) with a single  *)
(* matrix is the zero-sum game (A, -A), and game.support_enumeration()     *)
(* yields the equilibria it finds, by the steps modelled below.  A mixed   *)
(* strategy is held as [nums, den]: the probabilities nums[i] / den.       *)
(***************************************************************************)
MaxRows == 2        \* most rows of a payoff matrix
MaxCols == 3        \* most columns of a payoff matrix
MaxPayoff == 3      \* largest entry of the enumerated matrices
MaxCells == 6       \* most entries of a payoff matrix
MaxTotal == 7       \* largest sum of the entries of a payoff matrix

Abs(a) == IF a < 0 THEN 0 - a ELSE a

RECURSIVE GCD(_, _)
GCD(a, b) == IF b = 0 THEN a ELSE GCD(b, a % b)

\* A rational in lowest terms.
Normal(n, d) ==
    LET g == GCD(Abs(n), Abs(d))
        sign == IF d < 0 THEN 0 - 1 ELSE 1
    IN Rat(sign * (n \div g), sign * (d \div g))

NumRows(A) == Len(A)
NumCols(A) == Len(A[1])

Transpose(A) == [j \in 1..NumCols(A) |-> [i \in 1..NumRows(A) |-> A[i][j]]]

Negated(A) == [i \in 1..NumRows(A) |-> [j \in 1..NumCols(A) |-> 0 - A[i][j]]]

\* nash.Game(A): the pair of payoff matrices of the game.
Game(A) == [A |-> A, B |-> Negated(A)]

\* The members of a set of integers in increasing order.
RECURSIVE Ascending(_)
Ascending(S) ==
    IF S = {} THEN <<>>
    ELSE LET m == CHOOSE x \in S : \A y \in S : x <= y
         IN <<m>> \o Ascending(S \ {m})

\* The order in which powerset() yields the subsets of 1..n: by size, and
\* among equal sizes lexicographically.
YieldedBefore(S, T) ==
    \/ Cardinality(S) < Cardinality(T)
    \/ /\ Cardinality(S) = Cardinality(T)
       /\ S # T
       /\ LET D == (S \ T) \cup (T \ S)
          IN (CHOOSE x \in D : \A y \in D : x <= y) \in S

RECURSIVE InYieldOrder(_)
InYieldOrder(Sets) ==
    IF Sets = {} THEN <<>>
    ELSE LET first == CHOOSE S \in Sets :
                        \A T \in Sets \ {S} : YieldedBefore(S, T)
         IN <<first>> \o InYieldOrder(Sets \ {first})

\* The non-empty supports of a player with n pure strategies.
supports(n) == InYieldOrder((SUBSET (1..n)) \ {{}})

\* potential_support_pairs: every support of the row player with every
\* support of the column player.
RECURSIVE Concat(_)
Concat(ss) == IF ss = <<>> THEN <<>> ELSE ss[1] \o Concat(Tail(ss))

potential_support_pairs(A) ==
    LET s1 == supports(NumRows(A))
        s2 == supports(NumCols(A))
    IN Concat([a \in DOMAIN s1 |-> [b \in DOMAIN s2 |-> <<s1[a], s2[b]>>]])

\* The determinant of a square matrix, by expansion along its first row.
RECURSIVE Det(_)
Det(M) ==
    IF Len(M) = 1 THEN M[1][1]
    ELSE LET n == Len(M)
             minor(j) == [r \in 1..(n - 1) |->
                            [c \in 1..(n - 1) |->
                                M[r + 1][IF c < j THEN c ELSE c + 1]]]
             terms == [j \in 1..n |->
                         (IF j % 2 = 1 THEN 1 ELSE 0 - 1) * M[1][j] * Det(minor(j))]
         IN SumOver(terms, 1..n)

NoSolution == [ok |-> FALSE]

\* np.linalg.solve(M, b): LinAlgError when M is not square or is singular,
\* the solution (by Cramer's rule) otherwise.
linalg_solve(M, b) ==
    IF \E r \in DOMAIN M : Len(M[r]) # Len(M) THEN NoSolution
    ELSE LET d == Det(M)
             n == Len(M)
             replaced(i) == [r \in 1..n |-> [c \in 1..n |->
                                IF c = i THEN b[r] ELSE M[r][c]]]
         IN IF d = 0 THEN NoSolution
            ELSE LET sign == IF d < 0 THEN 0 - 1 ELSE 1
                 IN [ok |-> TRUE,
                     nums |-> [i \in 1..n |-> sign * Det(replaced(i))],
                     den |-> sign * d]

\* solve_indifference(A, rows, columns): the probability vector over the
\* columns of A, zero outside `columns`, that makes the rows of `rows`
\* equally good; NoSolution for the code's False.
solve_indifference(A, rows, columns) ==
    LET r == Ascending(rows)
        k == Len(r)
        n == NumCols(A)
        \* (A[rows] - np.roll(A[rows], 1, axis=0))[:-1]
        differences ==
            [i \in 1..(k - 1) |->
                [j \in 1..n |->
                    A[r[i]][j] - A[r[IF i = 1 THEN k ELSE i - 1]][j]]]
        zero_columns == Ascending((1..n) \ columns)
        zero_rows ==
            [z \in DOMAIN zero_columns |->
                [j \in 1..n |-> IF j = zero_columns[z] THEN 1 ELSE 0]]
        M == differences \o zero_rows \o <<[j \in 1..n |-> 1]>>
        b == [i \in 1..Len(M) |-> IF i = Len(M) THEN 1 ELSE 0]
        prob == linalg_solve(M, b)
    IN IF prob.ok /\ \A i \in DOMAIN prob.nums : prob.nums[i] >= 0
       THEN prob
       ELSE NoSolution

\* A variant that accepts every solution of the indifference equations,
\* whatever its support.
obey_support_any(strategy, support) == strategy.ok

\* obey_support(strategy, support): positive exactly on the support.
obey_support(strategy, support) ==
    /\ strategy.ok
    /\ \A i \in DOMAIN strategy.nums :
          \/ i \in support /\ strategy.nums[i] > 0
          \/ i \notin support /\ strategy.nums[i] <= 0

\* The largest member of a non-empty set of integers.
Max(S) == CHOOSE x \in S : \A y \in S : y <= x

\* is_ne: the best payoff over all pure strategies is reached inside the
\* support, for both players.  Payoffs are scaled by the opponent's
\* (positive) denominator, which leaves the comparison unchanged.
is_ne(s1, s2, sup1, sup2, game) ==
    LET row_payoffs == [i \in 1..NumRows(game.A) |-> Dot(game.A[i], s2.nums)]
        BT == Transpose(game.B)
        column_payoffs == [j \in 1..NumCols(game.A) |-> Dot(BT[j], s1.nums)]
    IN /\ Max(Range(row_payoffs)) = Max({row_payoffs[i] : i \in sup1})
       /\ Max(Range(column_payoffs)) = Max({column_payoffs[j] : j \in sup2})

\* The strategy pair of one support pair, when support_enumeration yields
\* one for it: <<>> or a one-element list.
equilibrium_of(game, pair) ==
    LET s1 == solve_indifference(Transpose(game.B), pair[2], pair[1])
        s2 == solve_indifference(game.A, pair[1], pair[2])
    IN IF /\ obey_support(s1, pair[1])
          /\ obey_support(s2, pair[2])
          /\ is_ne(s1, s2, pair[1], pair[2], game)
       THEN <<<<s1, s2>>>>
       ELSE <<>>

\* list(game.support_enumeration())
support_enumeration(game) ==
    LET pairs == potential_support_pairs(game.A)
    IN Concat([k \in DOMAIN pairs |-> equilibrium_of(game, pairs[k])])

\* A variant that lists only the probabilities that are positive.
tolist_positive(strategy) ==
    LET all == [i \in DOMAIN strategy.nums |->
                  Normal(strategy.nums[i], strategy.den)]
    IN SelectSeq(all, LAMBDA q : q.num > 0)

\* strategy.tolist(): the probabilities, each in lowest terms.
tolist(strategy) ==
    [i \in DOMAIN strategy.nums |-> Normal(strategy.nums[i], strategy.den)]

\* game[eq]: the expected payoff of each player, s1 @ M @ s2.
expected_payoff(M, s1, s2) ==
    LET terms == [c \in (DOMAIN s1.nums) \X (DOMAIN s2.nums) |->
                    s1.nums[c[1]] * M[c[1]][c[2]] * s2.nums[c[2]]]
    IN Normal(SumOver(terms, DOMAIN terms), s1.den * s2.den)

\* A variant that lists the payoffs in the reverse order of the players.
equilibrium_record_swapped(list, game, eq) ==
    [player_strategies |-> [p \in {list[1], list[2]} |->
                              IF p = list[2] THEN tolist(eq[2]) ELSE tolist(eq[1])],
     payoffs |-> <<expected_payoff(game.B, eq[1], eq[2]),
                   expected_payoff(game.A, eq[1], eq[2])>>]

\* One entry of results["equilibria"].
equilibrium_record(list, game, eq) ==
    [player_strategies |-> [p \in {list[1], list[2]} |->
                              IF p = list[2] THEN tolist(eq[2]) ELSE tolist(eq[1])],
     payoffs |-> <<expected_payoff(game.A, eq[1], eq[2]),
                   expected_payoff(game.B, eq[1], eq[2])>>]

_handle_cooperative_game ==
    [shapley_values |-> <<>>, core_solutions |-> <<>>, nucleolus |-> <<>>,
     game_type |-> "cooperative"]

_handle_extensive_form ==
    [equilibria |-> <<>>, game_tree |-> <<>>, game_type |-> "extensive_form"]

\* The handler.  request.players[i] raises IndexError when an equilibrium is
\* formatted for fewer than two names; the helpers of the other game types
\* are plain functions returning a dict, and awaiting a dict raises
\* TypeError.  An empty matrix becomes an array of shape (0,), and
\* support_enumeration raises ValueError when it unpacks the shape into the
\* two players' strategy counts.  Every exception becomes
\* HTTPException(500).
compute_nash_equilibrium(A, list, type) ==
    IF type # "normal_form" THEN HTTPException(500, "TypeError")
    ELSE IF A = <<>> THEN HTTPException(500, "ValueError")
    ELSE LET game == Game(A)
             equilibria == support_enumeration(game)
         IN IF equilibria # <<>> /\ Len(list) < 2
            THEN HTTPException(500, "IndexError")
            ELSE ComputationResponse(
                    [equilibria |-> [k \in DOMAIN equilibria |->
                                        equilibrium_record(list, game, equilibria[k])],
                     game_type |-> "normal_form",
                     players |-> list,
                     matrix |-> A])

(***************************************************************************)
(* The normal-form requests of the model.                                  *)
(***************************************************************************)
\* The shapes of the enumerated matrices: at most MaxRows rows, MaxCols
\* columns and MaxCells entries.
Shapes ==
    {d \in (1..MaxRows) \X (1..MaxCols) : d[1] * d[2] <= MaxCells}

\* The sum of the entries of a matrix.
Total(A) ==
    SumOver([c \in (1..NumRows(A)) \X (1..NumCols(A)) |-> A[c[1]][c[2]]],
            (1..NumRows(A)) \X (1..NumCols(A)))

\* The payoff matrix of the Prisoner's Dilemma scenario.
PrisonersDilemma == <<<<3, 0>>, <<5, 1>>>>

GameTypes == {"normal_form", "cooperative", "extensive_form"}

\* The matrices with no entries: no rows, and one row with no columns.
EmptyMatrices == {<<>>, << <<>> >>}

\* The players lists that name more players than a matrix has.
LongerPlayerLists == {[i \in 1..n |-> NamePool[i]] : n \in 3..MaxPlayers}

\* The requests: the players lists of two names and the longer ones; the
\* Prisoner's Dilemma, the empty matrices and every matrix of an enumerated
\* shape with entries 0..MaxPayoff that sum to at most MaxTotal.
InitNash ==
    /\ players \in PlayerLists(2) \cup LongerPlayerLists
    /\ coalition_values = <<>>
    /\ \/ matrix = PrisonersDilemma
       \/ matrix \in EmptyMatrices
       \/ \E d \in Shapes :
             /\ matrix \in [1..d[1] -> [1..d[2] -> 0..MaxPayoff]]
             /\ Total(matrix) <= MaxTotal
    /\ game_type \in GameTypes
    /\ called = "none"
    /\ result = NoResult
    /\ invocations = <<>>
    /\ other_services_idle

Call_compute_nash_equilibrium ==
    /\ called = "none"
    /\ called' = "compute_nash_equilibrium"
    /\ result' = compute_nash_equilibrium(matrix, players, game_type)
    /\ UNCHANGED <<gambit_vars, other_services>>

NextNash == Call_compute_nash_equilibrium

SpecNash == InitNash /\ [][NextNash]_vars

(***************************************************************************)
(* build_extensive_form_game                                               *)
(*                                                                         *)
(* The handler makes an empty tree, calls _build_game_tree (whose body is  *)
(* `pass`), and formats what gambit's ExternalLogitSolver returns for the  *)
(* tree.  The solver runs the external program gambit-logit and parses the *)
(* profiles it prints; what it prints for the bare root is outside the     *)
(* repository, so the model lets the call end in each of the ways it can:  *)
(* an exception, no profile, or a profile.                                 *)
(***************************************************************************)
\* gambit.Game.new_tree(): a root without moves, players or outcomes.
new_tree == [root |-> <<>>, players |-> <<>>]

\* _build_game_tree(node, game_tree, players): `pass`; the game is left as
\* it was.
_build_game_tree(game, game_tree, list) == game

\* solver.solve(game)
ExternalLogitSolver_solve(game) ==
    {Raised("OSError"), Returned(<<>>), Returned(<<game>>)}

\* The outcomes of the handler.  Formatting a profile calls eq.items(),
\* which a gambit profile does not have: AttributeError.  Every exception
\* becomes HTTPException(500).
build_extensive_form_game(game_tree, list) ==
    LET game == _build_game_tree(new_tree, game_tree, list)
    IN {IF equilibria.kind = "raised"
            THEN HTTPException(500, equilibria.error)
        ELSE IF equilibria.value # <<>>
            THEN HTTPException(500, "AttributeError")
        ELSE ComputationResponse(
                [equilibria |-> <<>>,
                 game_tree |-> game_tree,
                 players |-> list,
                 game_type |-> "extensive_form"]) :
        equilibria \in ExternalLogitSolver_solve(game)}

(***************************************************************************)
(* The service: the router with its three solver endpoints.  Requests      *)
(* arrive at any time and each starts an invocation of its handler; the    *)
(* invocations in flight advance in any interleaving, solve_cooperative_   *)
(* game statement by statement.  An invocation holds its request, its      *)
(* position, its local variables and, once done, its response.  The module *)
(* has no mutable global: logger and router are bound once.                *)
(***************************************************************************)
MaxInvocations == 3     \* most invocations of one run of the service

NashEquilibriumRequest(A, list, type) ==
    [endpoint |-> "compute_nash", matrix |-> A, players |-> list,
     game_type |-> type, coalition_values |-> <<>>, game_tree |-> <<>>]

CooperativeGameRequest(cv, list) ==
    [endpoint |-> "solve_cooperative", matrix |-> <<>>, players |-> list,
     game_type |-> "cooperative", coalition_values |-> cv, game_tree |-> <<>>]

ExtensiveFormRequest(tree, list) ==
    [endpoint |-> "build_extensive_game", matrix |-> <<>>, players |-> list,
     game_type |-> "extensive_form", coalition_values |-> <<>>,
     game_tree |-> tree]

\* The matrix of matching pennies scored for the row player.
MatchingPennies == <<<<1, 0>>, <<0, 1>>>>

\* A game tree with one move of the first player.
OneMoveTree == [player |-> "A", moves |-> <<"left", "right">>]

\* The requests sent to the service.
RequestPool ==
    {NashEquilibriumRequest(PrisonersDilemma, <<"A", "B">>, "normal_form"),
     NashEquilibriumRequest(MatchingPennies, <<"A", "B">>, "normal_form"),
     NashEquilibriumRequest(PrisonersDilemma, <<"A", "B">>, "extensive_form"),
     CooperativeGameRequest(<<>>, <<>>),
     CooperativeGameRequest([k \in {"{A,B}"} |-> 1], <<"B", "A">>),
     ExtensiveFormRequest(OneMoveTree, <<"A", "B">>)}

\* The first statement of each handler.
first_statement(request) ==
    IF request.endpoint = "solve_cooperative" THEN "shapley_values"
    ELSE IF request.endpoint = "compute_nash" THEN "compute_nash"
    ELSE "build_extensive_game"

NoLocals ==
    [shapley_values |-> <<>>, core_solutions |-> <<>>, nucleolus |-> <<>>]

\* A call of a handler: its own frame.
new_invocation(request) ==
    [request |-> request, pc |-> first_statement(request),
     locals |-> NoLocals, response |-> NoResult]

\* A variant in which the request is held in a module-level name that every
\* arrival rebinds: a handler reads the request that arrived last.
request_of_latest(invs, i) == invs[Len(invs)].request

\* The `request` parameter of invocation i.
request_of(invs, i) == invs[i].request

\* The handler returns or raises: invocation i ends with its response.
finish(invs, i, response) ==
    [invs EXCEPT ![i].pc = "done", ![i].response = response]

\* The equilibria of the normal-form responses already produced.
earlier_equilibria(invs) ==
    Concat([k \in DOMAIN invs |->
              IF /\ invs[k].pc = "done"
                 /\ invs[k].request.endpoint = "compute_nash"
                 /\ invs[k].response.kind = "returned"
              THEN invs[k].response.value.data.equilibria
              ELSE <<>>])

\* A variant in which the list of equilibria is a module-level list that
\* every call extends.
handle_compute_nash_accumulating(invs, i) ==
    LET request == request_of(invs, i)
        response == compute_nash_equilibrium(request.matrix, request.players,
                                             request.game_type)
    IN IF response.kind = "returned"
       THEN ComputationResponse(
               [response.value.data EXCEPT
                   !.equilibria = earlier_equilibria(invs) \o @])
       ELSE response

\* compute_nash_equilibrium(request) for invocation i: every name the body
\* assigns is local to the call.
handle_compute_nash(invs, i) ==
    LET request == request_of(invs, i)
    IN compute_nash_equilibrium(request.matrix, request.players,
                                request.game_type)

InitService ==
    /\ players = <<>>
    /\ coalition_values = <<>>
    /\ matrix = <<>>
    /\ game_type = "normal_form"
    /\ called = "none"
    /\ result = NoResult
    /\ invocations = <<>>
    /\ other_services_idle

Receive(request) ==
    /\ Len(invocations) < MaxInvocations
    /\ invocations' = Append(invocations, new_invocation(request))
    /\ UNCHANGED <<players, coalition_values, matrix, game_type, called, result,
                   other_services>>

\* shapley_values = _calculate_shapley_values(players, coalition_values)
Step_shapley_values(i) ==
    /\ invocations[i].pc = "shapley_values"
    /\ LET request == request_of(invocations, i)
           shapley_values ==
               _calculate_shapley_values(request.players,
                                         request.coalition_values)
       IN invocations' =
            IF shapley_values.kind = "raised"
            THEN finish(invocations, i, HTTPException(500, shapley_values.error))
            ELSE [invocations EXCEPT
                    ![i].locals.shapley_values = shapley_values.value,
                    ![i].pc = "core_solutions"]
    /\ UNCHANGED <<players, coalition_values, matrix, game_type, called, result,
                   other_services>>

\* core_solutions = _find_core_solutions(players, coalition_values)
Step_core_solutions(i) ==
    /\ invocations[i].pc = "core_solutions"
    /\ LET request == request_of(invocations, i)
       IN \E core \in _find_core_solutions(request.players,
                                           request.coalition_values) :
            invocations' = [invocations EXCEPT
                              ![i].locals.core_solutions = core,
                              ![i].pc = "nucleolus"]
    /\ UNCHANGED <<players, coalition_values, matrix, game_type, called, result,
                   other_services>>

\* nucleolus = _calculate_nucleolus(players, coalition_values); its call of
\* _find_core_solutions returns what the handler's call returned.
Step_nucleolus(i) ==
    /\ invocations[i].pc = "nucleolus"
    /\ LET request == request_of(invocations, i)
       IN invocations' = [invocations EXCEPT
                            ![i].locals.nucleolus =
                                nucleolus_of(request.players,
                                             invocations[i].locals.core_solutions),
                            ![i].pc = "results"]
    /\ UNCHANGED <<players, coalition_values, matrix, game_type, called, result,
                   other_services>>

\* results = {...}; return ComputationResponse(...)
Step_results(i) ==
    /\ invocations[i].pc = "results"
    /\ LET request == request_of(invocations, i)
           locals == invocations[i].locals
       IN invocations' =
            finish(invocations, i,
                   ComputationResponse(
                      [shapley_values |-> locals.shapley_values,
                       core_solutions |-> locals.core_solutions,
                       nucleolus |-> locals.nucleolus,
                       players |-> request.players,
                       coalition_values |-> request.coalition_values,
                       game_type |-> "cooperative"]))
    /\ UNCHANGED <<players, coalition_values, matrix, game_type, called, result,
                   other_services>>

Step_compute_nash(i) ==
    /\ invocations[i].pc = "compute_nash"
    /\ invocations' = finish(invocations, i, handle_compute_nash(invocations, i))
    /\ UNCHANGED <<players, coalition_values, matrix, game_type, called, result,
                   other_services>>

Step_build_extensive_game(i) ==
    /\ invocations[i].pc = "build_extensive_game"
    /\ LET request == request_of(invocations, i)
       IN \E response \in build_extensive_form_game(request.game_tree,
                                                    request.players) :
            invocations' = finish(invocations, i, response)
    /\ UNCHANGED <<players, coalition_values, matrix, game_type, called, result,
                   other_services>>

NextService ==
    \/ \E request \in RequestPool : Receive(request)
    \/ \E i \in DOMAIN invocations : Step_shapley_values(i)
    \/ \E i \in DOMAIN invocations : Step_core_solutions(i)
    \/ \E i \in DOMAIN invocations : Step_nucleolus(i)
    \/ \E i \in DOMAIN invocations : Step_results(i)
    \/ \E i \in DOMAIN invocations : Step_compute_nash(i)
    \/ \E i \in DOMAIN invocations : Step_build_extensive_game(i)

SpecService == InitService /\ [][NextService]_vars

(***************************************************************************)
(* Properties of the cooperative solver.                                   *)
(***************************************************************************)
RatAdd(a, b) == Rat(a.num * b.den + b.num * a.den, a.den * b.den)

RECURSIVE RatSum(_, _)
RatSum(f, S) ==
    IF S = {} THEN Rat(0, 1)
    ELSE LET x == CHOOSE y \in S : TRUE IN RatAdd(f[x], RatSum(f, S \ {x}))

\* The worth of a set of players, an absent coalition being worth 0.
Worth(S) == get(coalition_values, coalition_str(S), 0)

GrandCoalitionValue == Worth(Range(players))

\* The classical Shapley value of player p: the sum over the sets S of other
\* players of |S|! (n-|S|-1)! / n! * (v(S + {p}) - v(S)).
ClassicalShapley(p) ==
    LET N == Range(players)
        n == Cardinality(N)
        others == SUBSET (N \ {p})
        terms == [S \in others |->
                    Factorial(Cardinality(S)) * Factorial(n - Cardinality(S) - 1)
                        * (Worth(S \cup {p}) - Worth(S))]
    IN Rat(SumOver(terms, others), Factorial(n))

\* Players i and j are interchangeable: v(S + {i}) = v(S + {j}) for every
\* coalition S holding neither.
Interchangeable(i, j) ==
    \A S \in SUBSET (Range(players) \ {i, j}) :
        Worth(S \cup {i}) = Worth(S \cup {j})

ShapleyCalled == called = "_calculate_shapley_values"

\* C1: the Shapley values returned by _calculate_shapley_values sum to the
\* value of the grand coalition.
C1_ShapleyEfficiency ==
    ShapleyCalled =>
        /\ result.kind = "returned"
        /\ DOMAIN result.value = Range(players)
        /\ RatEq(RatSum(result.value, Range(players)),
                 Rat(GrandCoalitionValue, 1))

\* C2: for every player the value computed by _calculate_shapley_values is
\* the classical Shapley value.
C2_ShapleyIsClassical ==
    ShapleyCalled =>
        /\ result.kind = "returned"
        /\ \A p \in Range(players) :
              RatEq(result.value[p], ClassicalShapley(p))

\* C10: interchangeable players are assigned equal Shapley values.
C10_ShapleySymmetry ==
    ShapleyCalled =>
        \A i, j \in Range(players) :
            (i # j /\ Interchangeable(i, j)) =>
                /\ result.kind = "returned"
                /\ RatEq(result.value[i], result.value[j])

CoreCalled == called = "_find_core_solutions"

\* The shares of the members of S in an allocation.
Share(a, S) == SumOver(a, S)

\* C3: every allocation returned by _find_core_solutions gives each player
\* at least the worth of its singleton coalition and each coalition of
\* 2..n-1 players at least its worth.
C3_CoreRationality ==
    CoreCalled =>
        \A k \in DOMAIN result.value :
            LET a == result.value[k]
            IN /\ \A p \in Range(players) : a[p] >= Worth({p})
               /\ \A S \in SUBSET Range(players) :
                     (Cardinality(S) >= 2 /\ Cardinality(S) < Len(players))
                        => Share(a, S) >= Worth(S)

\* C4: every allocation returned by _find_core_solutions has one
\* non-negative share per player, and the shares sum to the value of the
\* grand coalition (0 when its key is absent).
C4_CoreEfficiency ==
    CoreCalled =>
        \A k \in DOMAIN result.value :
            LET a == result.value[k]
            IN /\ DOMAIN a = Range(players)
               /\ \A p \in Range(players) : a[p] >= 0
               /\ Share(a, Range(players)) = GrandCoalitionValue

\* A core solution with a positive share was returned for a players list
\* that is not in sorted order.
C4_Witness ==
    /\ CoreCalled
    /\ Len(players) >= 2
    /\ players # sorted(Range(players))
    /\ result.value # <<>>
    /\ \E p \in Range(players) : result.value[1][p] > 0

IsEmptyCoreGame ==
    /\ players = EmptyCoreGame.players
    /\ coalition_values = EmptyCoreGame.coalition_values

\* An outcome that reports an empty core: an error that names the
\* infeasibility, or a response whose core_solutions is empty and whose
\* nucleolus holds no allocation.
ReportsInfeasibility(r) ==
    \/ r.kind = "raised" /\ r.error = "HTTPException" /\ r.detail = "infeasible"
    \/ /\ r.kind = "returned"
       /\ r.value.data.core_solutions = <<>>
       /\ DOMAIN r.value.data.nucleolus = {}

\* C5: on the three-player game with an empty core the cooperative solver
\* reports infeasibility, and returns no allocation in its place.
C5_EmptyCoreReported ==
    (IsEmptyCoreGame /\ called = "solve_cooperative_game") =>
        ReportsInfeasibility(result)

\* The core linear program of the current game is infeasible.
CoreInfeasible ==
    linprog(ub_constraints(players, coalition_values),
            eq_constraint(players, coalition_values), bounds_lower) = {}

\* The game over the same players in which every coalition is worth 0: its
\* core holds the all-zero allocation.
ZeroGameValues == [k \in AllKeys(Range(players)) |-> 0]

\* What a caller learns from an outcome: everything but the echo of the
\* request.
Outcome(r) ==
    IF r.kind = "returned"
    THEN [kind |-> "returned",
          core_solutions |-> r.value.data.core_solutions,
          nucleolus |-> r.value.data.nucleolus]
    ELSE [kind |-> "raised", status_code |-> r.status_code, detail |-> r.detail]

\* C6: when the core linear program is infeasible the outcome of
\* solve_cooperative_game differs from the outcome for the game whose
\* result is the all-zero allocation, and no field carries an allocation.
C6_InfeasibleDistinguishable ==
    (called = "solve_cooperative_game" /\ CoreInfeasible) =>
        /\ \A z \in solve_cooperative_game(players, ZeroGameValues) :
              Outcome(z) # Outcome(result)
        /\ result.kind = "returned" => DOMAIN result.value.data.nucleolus = {}

\* A coalition_values key names a player that is not in the players list.
UnknownPlayerKeys ==
    \E k \in DOMAIN coalition_values : k \notin AllKeys(Range(players))

\* A validation error: the request is refused with a client-error status.
IsValidationError(r) ==
    /\ r.kind = "raised"
    /\ r.error = "HTTPException"
    /\ r.status_code \in 400..499

\* C15: solve_cooperative_game answers an empty players list, and a map
\* with a key that names an unlisted player, with a validation error.
C15_MalformedRejected ==
    (called = "solve_cooperative_game" /\ (players = <<>> \/ UnknownPlayerKeys))
        => IsValidationError(result)

\* What _find_core_solutions returns for a game whose core is empty.
EmptyCoreOutcomes ==
    {Returned(core) :
        core \in _find_core_solutions(EmptyCoreGame.players,
                                      EmptyCoreGame.coalition_values)}

\* C16: when linprog fails with an exception, what _find_core_solutions
\* returns is neither a found allocation nor what it returns for an empty
\* core.
C16_SolverFailureDistinct ==
    (CoreCalled /\ linprog_raises(eq_constraint(players, coalition_values))) =>
        /\ result \notin EmptyCoreOutcomes
        /\ ~(result.kind = "returned" /\ result.value # <<>>)

\* The players a constraint row selects.
Members(list, row) == {list[i] : i \in {j \in DOMAIN row : row[j] = 1}}

\* The coalition worths the functions look up for a players list: for each
\* constraint of the core program the coalition and the worth found, and
\* for each player the marginal contribution the Shapley loop finds for the
\* list as given.
Lookups(list, cv) ==
    {<<Members(list, c.row), c.rhs>> :
        c \in ub_constraints(list, cv) \cup {eq_constraint(list, cv)}}
    \cup {<<Range(list), p, marginal_contribution(list, p, cv)>> :
            p \in Range(list)}

\* The Shapley values of an outcome of solve_cooperative_game, or the error.
ShapleyPart(r) ==
    IF r.kind = "returned" THEN r.value.data.shapley_values ELSE r

\* The players list with the entries at positions i and j exchanged.
Swapped(list, i, j) ==
    [k \in DOMAIN list |->
        IF k = i THEN list[j] ELSE IF k = j THEN list[i] ELSE list[k]]

\* The reorderings a players list is compared with: the sorted list and
\* every list that exchanges two of its entries.  Exchanges of two entries
\* generate every permutation.
Reorderings(list) ==
    {sorted(Range(list))}
    \cup {Swapped(list, i, j) : i \in DOMAIN list, j \in DOMAIN list}

SolutionData(r) ==
    IF r.kind = "returned" /\ called = "solve_cooperative_game"
    THEN [shapley_values |-> r.value.data.shapley_values,
          core_solutions |-> r.value.data.core_solutions,
          nucleolus |-> r.value.data.nucleolus]
    ELSE r

\* The outcomes of the function that was called, on a players list and map.
OutcomesOf(list, cv) ==
    IF called = "_calculate_shapley_values"
        THEN {_calculate_shapley_values(list, cv)}
    ELSE IF called = "_find_core_solutions"
        THEN {Returned(core) : core \in _find_core_solutions(list, cv)}
    ELSE IF called = "_calculate_nucleolus"
        THEN {Returned(nucleolus) : nucleolus \in _calculate_nucleolus(list, cv)}
    ELSE solve_cooperative_game(list, cv)

\* The map with an entry of worth 0 added for key k.
WithZeroEntry(cv, k) ==
    [x \in DOMAIN cv \cup {k} |-> IF x = k THEN 0 ELSE cv[x]]

\* The keys of the coalitions of listed players that the map lacks.
AbsentKeys == AllKeys(Range(players)) \ DOMAIN coalition_values

\* C18: adding an entry of worth 0 for an absent coalition key leaves the
\* solution data the called function can produce, and the value the Shapley
\* loop accumulates for every player, as they are.
C18_AbsentIsZero ==
    called # "none" =>
        \A k \in AbsentKeys :
            LET zeroed == WithZeroEntry(coalition_values, k)
            IN /\ {SolutionData(r) : r \in OutcomesOf(players, zeroed)}
                    = {SolutionData(r) : r \in OutcomesOf(players, coalition_values)}
               /\ SolutionData(result)
                    \in {SolutionData(r) : r \in OutcomesOf(players, zeroed)}
               /\ called = "_calculate_shapley_values" =>
                     \A p \in Range(players) :
                         shapley_accumulate(players, zeroed, p)
                            = shapley_accumulate(players, coalition_values, p)

\* _find_core_solutions returned an allocation for a game in which the key
\* of a listed player's singleton coalition is absent.
C18_Witness ==
    /\ CoreCalled
    /\ result.value # <<>>
    /\ Len(players) >= 2
    /\ \E p \in Range(players) : coalition_str({p}) \in AbsentKeys
    /\ \E p \in Range(players) : result.value[1][p] > 0

NucleolusCalled == called = "_calculate_nucleolus"

\* The first core solutions _find_core_solutions can return for the game.
FirstCoreSolutions ==
    {core[1] : core \in {c \in _find_core_solutions(players, coalition_values) :
                            c # <<>>}}

\* C19: _calculate_nucleolus returns the first core solution when the core
\* program has one and the all-zero allocation otherwise, and a response of
\* solve_cooperative_game with core solutions has the first as nucleolus.
C19_NucleolusPlaceholder ==
    /\ NucleolusCalled =>
          /\ result.kind = "returned"
          /\ IF FirstCoreSolutions # {}
             THEN result.value \in FirstCoreSolutions
             ELSE result.value = [p \in Range(players) |-> 0]
    /\ (called = "solve_cooperative_game" /\ result.kind = "returned") =>
          /\ result.value.data.core_solutions # <<>> =>
                result.value.data.nucleolus = result.value.data.core_solutions[1]
          /\ result.value.data.core_solutions = <<>> =>
                result.value.data.nucleolus = [p \in Range(players) |-> 0]

\* _calculate_nucleolus returned a core solution with a positive share.
C19_Witness ==
    /\ NucleolusCalled
    /\ FirstCoreSolutions # {}
    /\ \E p \in Range(players) : result.value[p] > 0

\* The keys of the two coalitions the Shapley loop looks up for player p.
ShapleyKeys(p) ==
    {coalition_str(Range(players)), coalition_str(Range(players) \ {p})}

\* Two games that differ from the current one outside a set of keys: the
\* game that keeps only those entries, and the game that gives every other
\* coalition of listed players a worth above MaxValue.
OtherGames(keep) ==
    {[k \in DOMAIN coalition_values \cap keep |-> coalition_values[k]],
     [k \in AllKeys(Range(players)) \cup DOMAIN coalition_values |->
        IF k \in keep THEN get(coalition_values, k, 0) ELSE MaxValue + 1]}

NashCalled == called = "compute_nash_equilibrium" /\ game_type = "normal_form"

\* The inner product of a row of integers with a list of rationals.
RatDot(row, q) ==
    RatSum([j \in DOMAIN row |-> Rat(row[j] * q[j].num, q[j].den)], DOMAIN row)

Certain == Rat(1, 1)
Never == Rat(0, 1)

\* C7: on the Prisoner's Dilemma matrix the handler returns exactly one
\* equilibrium, both players playing their second strategy with
\* probability 1, with payoff vector [1, 1].
C7_PrisonersDilemma ==
    (NashCalled /\ matrix = PrisonersDilemma) =>
        /\ result.kind = "returned"
        /\ Len(result.value.data.equilibria) = 1
        /\ LET e == result.value.data.equilibria[1]
           IN /\ e.player_strategies[players[1]] = <<Never, Certain>>
              /\ e.player_strategies[players[2]] = <<Never, Certain>>
              /\ e.payoffs = <<Rat(1, 1), Rat(1, 1)>>

\* C8: in every returned equilibrium no player gains by switching to a pure
\* strategy against the opponent's reported strategy; payoffs are those of
\* the game the handler solves.
C8_BestResponse ==
    (NashCalled /\ result.kind = "returned") =>
        \A k \in DOMAIN result.value.data.equilibria :
            LET e == result.value.data.equilibria[k]
                x == e.player_strategies[players[1]]
                y == e.player_strategies[players[2]]
                g == Game(matrix)
                BT == Transpose(g.B)
            IN /\ \A i \in 1..NumRows(matrix) :
                     RatLeq(RatDot(g.A[i], y), e.payoffs[1])
               /\ \A j \in 1..NumCols(matrix) :
                     RatLeq(RatDot(BT[j], x), e.payoffs[2])

\* An equilibrium in which both players mix was returned for a game with a
\* third column.
C8_Witness ==
    /\ NashCalled
    /\ result.kind = "returned"
    /\ NumCols(matrix) = 3
    /\ \E k \in DOMAIN result.value.data.equilibria :
          LET e == result.value.data.equilibria[k]
          IN /\ \E i \in 1..NumRows(matrix) :
                   e.player_strategies[players[1]][i] \notin {Never, Certain}
             /\ \E j \in 1..NumCols(matrix) :
                   e.player_strategies[players[2]][j] \notin {Never, Certain}

\* C9: for a rectangular matrix with at least one entry and two player names
\* the handler returns at least one equilibrium.
C9_Existence ==
    (NashCalled /\ Len(players) = 2 /\ matrix \notin EmptyMatrices) =>
        /\ result.kind = "returned"
        /\ result.value.data.equilibria # <<>>

\* C14: for a payoff matrix with no entries the handler returns a response
\* with an empty list of equilibria.
C14_EmptyMatrix ==
    (NashCalled /\ matrix \in EmptyMatrices) =>
        /\ result.kind = "returned"
        /\ result.value.data.equilibria = <<>>

\* C20: every returned equilibrium holds a strategy for each name of the
\* players list and one payoff per name, for players lists of two or more
\* names.
C20_OnePerPlayer ==
    (NashCalled /\ result.kind = "returned" /\ Len(players) >= 2) =>
        \A k \in DOMAIN result.value.data.equilibria :
            LET e == result.value.data.equilibria[k]
            IN /\ DOMAIN e.player_strategies = Range(players)
               /\ Len(e.payoffs) = Len(players)

\* The two strategies of an entry of results["equilibria"].
Strategies(e) ==
    <<e.player_strategies[players[1]], e.player_strategies[players[2]]>>

IsDistribution(q, n) ==
    /\ Len(q) = n
    /\ \A i \in DOMAIN q : q[i].den > 0 /\ q[i].num >= 0
    /\ RatEq(RatSum(q, DOMAIN q), Certain)

\* C21: in every returned equilibrium the first strategy has one probability
\* per row and the second one per column, every probability is
\* non-negative, and each strategy sums to 1.
C21_Distributions ==
    (NashCalled /\ result.kind = "returned") =>
        \A k \in DOMAIN result.value.data.equilibria :
            LET e == result.value.data.equilibria[k]
            IN /\ IsDistribution(Strategies(e)[1], NumRows(matrix))
               /\ IsDistribution(Strategies(e)[2], NumCols(matrix))

\* An equilibrium was returned in which a strategy mixes some of the
\* player's pure strategies and leaves another out.
C21_Witness ==
    /\ NashCalled
    /\ result.kind = "returned"
    /\ \E k \in DOMAIN result.value.data.equilibria :
          LET x == Strategies(result.value.data.equilibria[k])
          IN \E a \in 1..2 :
                /\ \E i \in DOMAIN x[a] : x[a][i] = Never
                /\ \E j \in DOMAIN x[a] : x[a][j] \notin {Never, Certain}

\* C22: no two entries of the returned list of equilibria have the same
\* strategy profile.
C22_NoDuplicates ==
    (NashCalled /\ result.kind = "returned") =>
        \A k, l \in DOMAIN result.value.data.equilibria :
            k # l => Strategies(result.value.data.equilibria[k])
                        # Strategies(result.value.data.equilibria[l])

\* Several equilibria were returned for a game in which some pure strategy
\* has two best responses.
C22_Witness ==
    /\ NashCalled
    /\ result.kind = "returned"
    /\ Len(result.value.data.equilibria) >= 2
    /\ \E i \in 1..NumRows(matrix) :
          \E j, l \in 1..NumCols(matrix) :
              /\ j # l
              /\ matrix[i][j] = matrix[i][l]
              /\ \A m \in 1..NumCols(matrix) : matrix[i][j] <= matrix[i][m]

\* C25: the handler answers every game_type with a success response: the
\* equilibria of the matrix for 'normal_form', the data of
\* _handle_cooperative_game for 'cooperative' and the data of
\* _handle_extensive_form for any other value.
C25_Dispatch ==
    called = "compute_nash_equilibrium" =>
        /\ result.kind = "returned"
        /\ game_type = "normal_form" =>
              result.value.data.game_type = "normal_form"
        /\ game_type = "cooperative" =>
              result.value.data = _handle_cooperative_game
        /\ game_type \notin {"normal_form", "cooperative"} =>
              result.value.data = _handle_extensive_form

(***************************************************************************)
(* Properties of the service.                                              *)
(***************************************************************************)
Done(i) == invocations[i].pc = "done"

SolverEndpoints == {"compute_nash", "solve_cooperative"}

\* C11: two finished invocations of compute_nash_equilibrium or of
\* solve_cooperative_game on identical requests carry identical outcomes,
\* whatever was invoked before or between them.
C11_Stateless ==
    \A i, j \in DOMAIN invocations :
        (/\ Done(i) /\ Done(j)
         /\ invocations[i].request = invocations[j].request
         /\ invocations[i].request.endpoint \in SolverEndpoints)
            => invocations[i].response = invocations[j].response

\* The same normal-form request was served twice, with equilibria, and a
\* different request was served in between.
C11_Witness ==
    \E i, k, j \in DOMAIN invocations :
        /\ i < k /\ k < j
        /\ Done(i) /\ Done(k) /\ Done(j)
        /\ invocations[i].request = invocations[j].request
        /\ invocations[k].request # invocations[i].request
        /\ invocations[i].request.endpoint = "compute_nash"
        /\ invocations[j].response.kind = "returned"
        /\ invocations[j].response.value.data.equilibria # <<>>

\* The outcomes of a handler that runs alone on a request.
Alone(request) ==
    IF request.endpoint = "solve_cooperative"
    THEN solve_cooperative_game(request.players, request.coalition_values)
    ELSE IF request.endpoint = "compute_nash"
    THEN {compute_nash_equilibrium(request.matrix, request.players,
                                   request.game_type)}
    ELSE build_extensive_form_game(request.game_tree, request.players)

NoInterference ==
    \A i \in DOMAIN invocations :
        /\ invocations'[i].request = invocations[i].request
        /\ Done(i) => invocations'[i] = invocations[i]
        /\ (~Done(i) /\ invocations'[i].pc = "done")
              => invocations'[i].response \in Alone(invocations[i].request)

\* C12: in every interleaving of the invocations in flight, no step changes
\* the request of any invocation or touches an invocation that has
\* finished, and an invocation that finishes carries an outcome its handler
\* produces when it runs alone on its request.
C12_NoInterference == [][NoInterference]_vars

\* An invocation finished while an earlier one was in the middle of its
\* handler.
C12_Witness ==
    \E i, j \in DOMAIN invocations :
        /\ i < j
        /\ Done(j)
        /\ invocations[i].pc \in {"core_solutions", "nucleolus", "results"}

IsExtensiveFormRequest(request) ==
    \/ request.endpoint = "build_extensive_game"
    \/ /\ request.endpoint = "compute_nash"
       /\ request.game_type \notin {"normal_form", "cooperative"}

\* C13: every finished invocation that was asked for extensive-form solving
\* ended with an error, never with a successful response.
C13_ExtensiveFormFails ==
    \A i \in DOMAIN invocations :
        (Done(i) /\ IsExtensiveFormRequest(invocations[i].request))
            => invocations[i].response.kind = "raised"

(***************************************************************************)
(* resource_service.py: search_books and search_videos.                    *)
(*                                                                         *)
(* A Python str is a tuple of one-character strings here, so that lower()  *)
(* and the `in` operator are computed character by character.  A BookItem  *)
(* keeps the fields the search reads or that tell its origin (id, title,   *)
(* authors, open_access_url); a VideoItem keeps id, title and channel.     *)
(***************************************************************************)
Uppercase ==
    <<"A", "B", "C", "D", "E", "F", "G", "H", "I", "J", "K", "L",
          "M", "N", "O", "P", "Q", "R", "S", "T", "U", "V", "W",
          "X", "Y", "Z">>

Lowercase ==
    <<"a", "b", "c", "d", "e", "f", "g", "h", "i", "j", "k", "l",
          "m", "n", "o", "p", "q", "r", "s", "t", "u", "v", "w",
          "x", "y", "z">>

\* str.lower(), for the ASCII letters of the model's texts
lower_exact(s) == s

lower(s) ==
    [i \in DOMAIN s |->
        IF \E k \in DOMAIN Uppercase : Uppercase[k] = s[i]
        THEN Lowercase[CHOOSE k \in DOMAIN Uppercase : Uppercase[k] = s[i]]
        ELSE s[i]]

\* sub in s, for two strs
contains(sub, s) ==
    \E i \in 0..(Len(s) - Len(sub)) : SubSeq(s, i + 1, i + Len(sub)) = sub

\* The texts of the model, each a tuple of its characters.
text ==
    [Game_Theory |->
         <<"G", "a", "m", "e", " ", "T", "h", "e", "o", "r", "y">>,
     Essentials |->
         <<"E", "s", "s", "e", "n", "t", "i", "a", "l", "s", " ", "o", "f",
         " ", "G", "a", "m", "e", " ", "T", "h", "e", "o", "r",
         "y", ":", " ", "A", " ", "C", "o", "n", "c", "i", "s",
         "e", " ", "M", "u", "l", "t", "i", "d", "i", "s", "c",
         "i", "p", "l", "i", "n", "a", "r", "y", " ", "I", "n",
         "t", "r", "o", "d", "u", "c", "t", "i", "o", "n">>,
     Algorithmic_Game_Theory |->
         <<"A", "l", "g", "o", "r", "i", "t", "h", "m", "i", "c", " ", "G",
         "a", "m", "e", " ", "T", "h", "e", "o", "r", "y">>,
     Ken_Binmore |->
         <<"K", "e", "n", " ", "B", "i", "n", "m", "o", "r", "e">>,
     Yoav_Shoham |->
         <<"Y", "o", "a", "v", " ", "S", "h", "o", "h", "a", "m">>,
     Kevin_Leyton_Brown |->
         <<"K", "e", "v", "i", "n", " ", "L", "e", "y", "t", "o", "n", "-",
         "B", "r", "o", "w", "n">>,
     Noam_Nisan |->
         <<"N", "o", "a", "m", " ", "N", "i", "s", "a", "n">>,
     Tim_Roughgarden |->
         <<"T", "i", "m", " ", "R", "o", "u", "g", "h", "g", "a", "r", "d",
         "e", "n">>,
     Eva_Tardos |->
         <<"E", "v", "a", " ", "T", "a", "r", "d", "o", "s">>,
     Vijay_Vazirani |->
         <<"V", "i", "j", "a", "y", " ", "V", "a", "z", "i", "r", "a", "n",
         "i">>,
     Nash_Equilibrium |->
         <<"G", "a", "m", "e", " ", "T", "h", "e", "o", "r", "y", " ", "1",
         "0", "1", ":", " ", "N", "a", "s", "h", " ", "E", "q",
         "u", "i", "l", "i", "b", "r", "i", "u", "m">>,
     Ben_Polak |->
         <<"B", "e", "n", " ", "P", "o", "l", "a", "k", " ", "-", " ", "Y",
         "a", "l", "e">>,
     Game_Theory_Explained |->
         <<"G", "a", "m", "e", " ", "T", "h", "e", "o", "r", "y", " ", "E",
         "x", "p", "l", "a", "i", "n", "e", "d">>,
     MinutePhysics |->
         <<"M", "i", "n", "u", "t", "e", "P", "h", "y", "s", "i", "c",
         "s">>,
     Yale_Open_Courses |->
         <<"G", "a", "m", "e", " ", "T", "h", "e", "o", "r", "y", " ", "-",
         " ", "Y", "a", "l", "e", " ", "O", "p", "e", "n", " ",
         "C", "o", "u", "r", "s", "e", "s">>,
     YaleCourses |->
         <<"Y", "a", "l", "e", "C", "o", "u", "r", "s", "e", "s">>,
     game |->
         <<"g", "a", "m", "e">>,
     GAME |->
         <<"G", "A", "M", "E">>,
     binmore |->
         <<"b", "i", "n", "m", "o", "r", "e">>,
     nash |->
         <<"n", "a", "s", "h">>,
     yale |->
         <<"y", "a", "l", "e">>,
     Theory_colon |->
         <<"T", "h", "e", "o", "r", "y", ":", " ", "A">>,
     minute |->
         <<"m", "i", "n", "u", "t", "e">>,
     chess |->
         <<"c", "h", "e", "s", "s">>,
     GAME_THEORY |->
         <<"G", "A", "M", "E", " ", "T", "H", "E", "O", "R", "Y">>,
     Strategy |->
         <<"S", "t", "r", "a", "t", "e", "g", "y">>]

BookItem(id, title, authors, open_access_url) ==
    [id |-> id, title |-> title, authors |-> authors,
     open_access_url |-> open_access_url]

VideoItem(id, title, channel) ==
    [id |-> id, title |-> title, channel |-> channel]

open_access_books ==
    <<BookItem("bonanno-game-theory", text.Game_Theory, <<text.Ken_Binmore>>,
               "https://www.economics.utoronto.ca/osborne/MathTutorial/GT.pdf"),
      BookItem("essentials-game-theory", text.Essentials,
               <<text.Yoav_Shoham, text.Kevin_Leyton_Brown>>,
               "https://www.masfoundations.org/download.html"),
      BookItem("algorithmic-game-theory", text.Algorithmic_Game_Theory,
               <<text.Noam_Nisan, text.Tim_Roughgarden, text.Eva_Tardos,
                 text.Vijay_Vazirani>>,
               "https://www.cambridge.org/core/books/algorithmic-game-theory/4A6C44F7")>>

\* q.lower() in b.title.lower() or any(q.lower() in a.lower() ...)
matches_book(query, b) ==
    \/ contains(lower(query), lower(b.title))
    \/ \E k \in DOMAIN b.authors : contains(lower(query), lower(b.authors[k]))

\* What `await client.get(...)` does: it raises, or it gives a response
\* with a status code whose JSON body has the listed items.
HTTPResponse(status_code, items) ==
    [kind |-> "response", status_code |-> status_code, items |-> items]

\* The loop over data.get('items', []) of search_books: one BookItem per
\* item, until the construction of one raises (pydantic rejects
\* None for a field declared str); the except clause keeps what was
\* appended before.
RECURSIVE books_of(_)
books_of(items) ==
    IF items = <<>> THEN <<>>
    ELSE LET volume_info == get(items[1], "volumeInfo", <<>>)
             title == get(volume_info, "title", <<>>)
         IN IF title = None THEN <<>>
            ELSE <<BookItem(get(items[1], "id", ""), title,
                            get(volume_info, "authors", <<>>), None)>>
                 \o books_of(Tail(items))

commercial_books(env, resp) ==
    IF env.GOOGLE_BOOKS_API_KEY = "" THEN <<>>
    ELSE IF resp.kind = "raises" THEN <<>>
    ELSE IF resp.status_code # 200 THEN <<>>
    ELSE books_of(resp.items)

\* filtered_open_access + commercial_books
all_books(query, env, resp) ==
    SelectSeq(open_access_books, LAMBDA b : matches_book(query, b))
        \o commercial_books(env, resp)

\* The loop that removes duplicates based on title.
RECURSIVE remove_duplicates_exact(_, _, _)
remove_duplicates_exact(books, seen_titles, unique_books) ==
    IF books = <<>> THEN unique_books
    ELSE IF books[1].title \notin seen_titles
    THEN remove_duplicates_exact(Tail(books),
                                 seen_titles \cup {books[1].title},
                                 Append(unique_books, books[1]))
    ELSE remove_duplicates_exact(Tail(books), seen_titles, unique_books)

RECURSIVE remove_duplicates(_, _, _)
remove_duplicates(books, seen_titles, unique_books) ==
    IF books = <<>> THEN unique_books
    ELSE IF lower(books[1].title) \notin seen_titles
    THEN remove_duplicates(Tail(books),
                           seen_titles \cup {lower(books[1].title)},
                           Append(unique_books, books[1]))
    ELSE remove_duplicates(Tail(books), seen_titles, unique_books)

search_books(query, env, resp) ==
    Returned(remove_duplicates(all_books(query, env, resp), {}, <<>>))

curated_videos ==
    <<VideoItem("JAq-mbZjKGw", text.Nash_Equilibrium, text.Ben_Polak),
      VideoItem("mScpHTlqK7E", text.Game_Theory_Explained, text.MinutePhysics),
      VideoItem("6HCw1f7v1nA", text.Yale_Open_Courses, text.YaleCourses)>>

\* q.lower() in v.title.lower() or q.lower() in v.channel.lower()
matches_video_title(query, v) == contains(lower(query), lower(v.title))

matches_video(query, v) ==
    \/ contains(lower(query), lower(v.title))
    \/ contains(lower(query), lower(v.channel))

\* The loop over data.get('items', []) of search_videos.
RECURSIVE videos_of(_)
videos_of(items) ==
    IF items = <<>> THEN <<>>
    ELSE LET snippet == get(items[1], "snippet", <<>>)
             title == get(snippet, "title", <<>>)
             channel == get(snippet, "channelTitle", <<>>)
         IN IF title = None \/ channel = None THEN <<>>
            ELSE <<VideoItem(get(get(items[1], "id", <<>>), "videoId", ""),
                             title, channel)>>
                 \o videos_of(Tail(items))

youtube_videos(env, resp) ==
    IF env.YOUTUBE_API_KEY = "" THEN <<>>
    ELSE IF resp.kind = "raises" THEN <<>>
    ELSE IF resp.status_code # 200 THEN <<>>
    ELSE videos_of(resp.items)

search_videos(query, env, resp) ==
    LET videos == youtube_videos(env, resp)
    IN IF videos = <<>>
       THEN Returned(SelectSeq(curated_videos,
                               LAMBDA v : matches_video(query, v)))
       ELSE Returned(videos)

(***************************************************************************)
(* The searches as state machines: a query arrives in an environment (API  *)
(* key set or not, and what the remote API would answer), and the endpoint *)
(* is called on it.                                                        *)
(***************************************************************************)
MaxItems == 2       \* most items of a remote API's answer

Queries ==
    {<<>>, text.game, text.GAME, text.binmore, text.nash, text.yale,
     text.Theory_colon, text.minute, text.chess}

\* Items of a Google Books answer: a title of an open-access book, the same
\* title in capitals, another title, no title, and a null title.
VolumeItems ==
    {[id |-> "v1", volumeInfo |-> [title |-> text.Game_Theory]],
     [id |-> "v2", volumeInfo |-> [title |-> text.GAME_THEORY,
                                   authors |-> <<text.Ken_Binmore>>]],
     [id |-> "v3", volumeInfo |-> [title |-> text.Strategy]],
     [id |-> "v4"],
     [id |-> "v5", volumeInfo |-> [title |-> None]]}

\* Items of a YouTube answer: a lecture, an item without snippet, and an
\* item with a null title.
SearchItems ==
    {[id |-> [videoId |-> "y1"],
      snippet |-> [title |-> text.Strategy, channelTitle |-> text.chess]],
     [id |-> [videoId |-> "y2"]],
     [id |-> [videoId |-> "y3"],
      snippet |-> [title |-> None, channelTitle |-> text.chess]]}

Responses(pool) ==
    {[kind |-> "raises", error |-> "ConnectError"], HTTPResponse(500, <<>>)}
        \cup {HTTPResponse(200, items) :
                  items \in UNION {[1..n -> pool] : n \in 0..MaxItems}}

gambit_idle ==
    /\ players = <<>>
    /\ coalition_values = <<>>
    /\ matrix = <<>>
    /\ game_type = "normal_form"
    /\ invocations = <<>>
    /\ called = "none"
    /\ result = NoResult

InitBooks ==
    /\ gambit_idle
    /\ search_query \in Queries
    /\ \E key \in {"", "key"} :
           environ = [GOOGLE_BOOKS_API_KEY |-> key, YOUTUBE_API_KEY |-> ""]
    /\ api_response \in Responses(VolumeItems)
    /\ in_memory_services_init
    /\ pydantic_major = 1

Call_search_books ==
    /\ called = "none"
    /\ called' = "search_books"
    /\ result' = search_books(search_query, environ, api_response)
    /\ UNCHANGED <<gambit_vars, other_services>>

SpecBooks == InitBooks /\ [][Call_search_books]_vars

InitVideos ==
    /\ gambit_idle
    /\ search_query \in Queries
    /\ \E key \in {"", "key"} :
           environ = [GOOGLE_BOOKS_API_KEY |-> "", YOUTUBE_API_KEY |-> key]
    /\ api_response \in Responses(SearchItems)
    /\ in_memory_services_init
    /\ pydantic_major = 1

Call_search_videos ==
    /\ called = "none"
    /\ called' = "search_videos"
    /\ result' = search_videos(search_query, environ, api_response)
    /\ UNCHANGED <<gambit_vars, other_services>>

SpecVideos == InitVideos /\ [][Call_search_videos]_vars

(***************************************************************************)
(* Properties of the resource service.                                     *)
(*                                                                         *)
(* "Ignoring case" is stated on its own terms: two characters are the same *)
(* letter when they are equal or one is the capital of the other.          *)
(***************************************************************************)
SameLetter(a, b) ==
    \/ a = b
    \/ \E k \in DOMAIN Uppercase :
           {a, b} = {Uppercase[k], Lowercase[k]}

EqualIgnoringCase(s, t) ==
    Len(s) = Len(t) /\ \A i \in DOMAIN s : SameLetter(s[i], t[i])

ContainsIgnoringCase(sub, s) ==
    \E i \in 0..(Len(s) - Len(sub)) :
        \A k \in DOMAIN sub : SameLetter(sub[k], s[i + k])

IsOpenAccess(b) == b \in Range(open_access_books)

BookMatches(b) ==
    \/ ContainsIgnoringCase(search_query, b.title)
    \/ \E a \in Range(b.authors) : ContainsIgnoringCase(search_query, a)

\* C23: the open-access books returned by search_books(q) are exactly the
\* built-in ones whose title or one of whose authors contains q ignoring
\* case, each once and each before every commercial result; the empty query
\* returns all of them, 'game' returns something, and 'binmore' returns a
\* book whose title contains 'Game Theory'.
C23_OpenAccessMatches ==
    called = "search_books" =>
        /\ result.kind = "returned"
        /\ LET R == result.value
           IN /\ {b \in Range(R) : IsOpenAccess(b)}
                     = {b \in Range(open_access_books) : BookMatches(b)}
              /\ \A i, j \in DOMAIN R :
                     IsOpenAccess(R[i]) /\ R[i] = R[j] => i = j
              /\ \A i, j \in DOMAIN R :
                     IsOpenAccess(R[i]) /\ ~IsOpenAccess(R[j]) => i < j
              /\ search_query = <<>>
                     => Range(open_access_books) \subseteq Range(R)
              /\ search_query = text.game => R # <<>>
              /\ search_query = text.binmore
                     => \E b \in Range(R) : contains(text.Game_Theory, b.title)

\* A query with a capital matched some open-access books but not all, and
\* commercial results follow them.
C23_Witness ==
    /\ called = "search_books"
    /\ result.kind = "returned"
    /\ search_query # lower(search_query)
    /\ \E b \in Range(result.value) : IsOpenAccess(b)
    /\ \E b \in Range(open_access_books) : b \notin Range(result.value)
    /\ \E b \in Range(result.value) : ~IsOpenAccess(b)

\* The positions of a list of books that hold the first book of their title.
FirstOfTitle(c) ==
    {i \in DOMAIN c :
        \A j \in 1..(i - 1) : ~EqualIgnoringCase(c[j].title, c[i].title)}

\* The k-th smallest member of a set of positions.
Kth(S, k) == CHOOSE i \in S : Cardinality({j \in S : j <= i}) = k

\* C27: the list returned by search_books has no two books whose titles are
\* equal ignoring case: it is the list of candidates (the open-access
\* matches, then the commercial results) with, of each title, the first
\* candidate only, in the candidates' order.
C27_FirstOfEachTitle ==
    called = "search_books" =>
        /\ result.kind = "returned"
        /\ LET R == result.value
               c == all_books(search_query, environ, api_response)
           IN /\ \A i, j \in DOMAIN R :
                     i # j => ~EqualIgnoringCase(R[i].title, R[j].title)
              /\ Len(R) = Cardinality(FirstOfTitle(c))
              /\ \A k \in DOMAIN R : R[k] = c[Kth(FirstOfTitle(c), k)]

\* A commercial result was dropped for having the title of an earlier
\* candidate in other letter case, and another commercial result was kept.
C27_Witness ==
    /\ called = "search_books"
    /\ result.kind = "returned"
    /\ LET R == result.value
           c == all_books(search_query, environ, api_response)
       IN /\ \E i \in DOMAIN c :
                 /\ i \notin FirstOfTitle(c)
                 /\ \A j \in 1..(i - 1) : c[j].title # c[i].title
          /\ \E b \in Range(R) : ~IsOpenAccess(b)

VideoMatches(v) ==
    \/ ContainsIgnoringCase(search_query, v.title)
    \/ ContainsIgnoringCase(search_query, v.channel)

\* The YouTube lookup yields no videos: no API key, an exception raised by
\* the request, a status other than 200, no items, or an exception on the
\* first item.
NoVideos ==
    \/ environ.YOUTUBE_API_KEY = ""
    \/ api_response.kind = "raises"
    \/ api_response.status_code # 200
    \/ api_response.items = <<>>
    \/ videos_of(api_response.items) = <<>>

\* C24: when the YouTube lookup yields no videos, search_videos(q) returns
\* exactly the curated videos whose title or channel contains q ignoring
\* case, in curated order ('nash' returns something, 'yale' returns a video
\* whose channel contains 'Yale'); when the lookup yields a video, no
\* curated video is returned.
C24_CuratedFallback ==
    called = "search_videos" =>
        /\ result.kind = "returned"
        /\ LET R == result.value
           IN IF NoVideos
              THEN /\ R = SelectSeq(curated_videos, VideoMatches)
                   /\ search_query = text.nash => R # <<>>
                   /\ search_query = text.yale
                          => \E v \in Range(R) :
                                 contains(<<"Y", "a", "l", "e">>, v.channel)
              ELSE /\ R # <<>>
                   /\ \A v \in Range(R) : v \notin Range(curated_videos)

\* The lookup failed on its first item and the query matched a curated
\* video by its channel only.
C24_Witness ==
    /\ called = "search_videos"
    /\ result.kind = "returned"
    /\ environ.YOUTUBE_API_KEY # ""
    /\ api_response.kind = "response"
    /\ api_response.status_code = 200
    /\ api_response.items # <<>>
    /\ NoVideos
    /\ \E v \in Range(result.value) :
           ~ContainsIgnoringCase(search_query, v.title)

(***************************************************************************)
(* collaborative_workspace_service.py: CollaborativeWorkspaceService.      *)
(*                                                                         *)
(* A Document keeps content, owner_id, workspace_id, permissions, version, *)
(* collaborators and comments (a comment being its author); titles and     *)
(* timestamps are left out.  A uuid4 is an identifier not in use.  The     *)
(* methods are coroutines without an await, so each call is one step.      *)
(***************************************************************************)
MaxVersion == 3     \* no update beyond this version
MaxComments == 1    \* most comments of a document

Users == {"alice", "bob"}
DocumentPermission == {"read", "write", "admin"}

\* The edits of the model, as (new_content, position): a full replacement,
\* an insertion into a shorter content and a deletion.  A position that is
\* not None is an int held in a record.
Edits ==
    {<<<<"b">>, None>>,
     <<<<"b", "c">>, [kind |-> "int", value |-> 1]>>,
     <<<<"b">>, [kind |-> "int", value |-> 0]>>}

\* s[:p] and s[p:] for p >= 0
slice_to(s, p) == SubSeq(s, 1, Min(p, Len(s)))

slice_from(s, p) == SubSeq(s, p + 1, Len(s))

Document(content, owner_id, workspace_id) ==
    [content |-> content, owner_id |-> owner_id,
     workspace_id |-> workspace_id,
     permissions |-> [u \in {owner_id} |-> "admin"],
     version |-> 1, collaborators |-> <<owner_id>>, comments |-> <<>>]

CollaborationRequest(document_id, user_id, content, position) ==
    [document_id |-> document_id, user_id |-> user_id, action |-> "update",
     content |-> content, position |-> position]

has_any_permission(document, user_id) ==
    user_id \in DOMAIN document.permissions

\* user_id in document.permissions and document.permissions[user_id] in
\* [WRITE, ADMIN]
may_update(document, user_id) ==
    /\ user_id \in DOMAIN document.permissions
    /\ document.permissions[user_id] \in {"write", "admin"}

\* ... in [ADMIN]
may_share(document, user_id) ==
    /\ user_id \in DOMAIN document.permissions
    /\ document.permissions[user_id] \in {"admin"}

\* The content after "Apply change".
apply_change(content, new_content, position) ==
    IF position # None
    THEN LET p == position.value
         IN IF Len(new_content) > Len(content)
            THEN slice_to(content, p) \o slice_from(new_content, p)
                     \o slice_from(content, p)
            ELSE slice_to(content, p)
                     \o slice_from(content, p + Len(new_content))
    ELSE new_content

InitWorkspace ==
    /\ gambit_idle
    /\ other_services_idle

create_workspace(owner_id) ==
    /\ \E workspace_id \in uuid4.workspace \ workspaces :
           workspaces' = workspaces \cup {workspace_id}
    /\ called' = "create_workspace"
    /\ result' = Returned(owner_id)
    /\ UNCHANGED <<documents, real_time_updates>>
    /\ UNCHANGED <<gambit_vars, resource_vars, sso_vars, notebook_vars>>

create_document(workspace_id, owner_id, initial_content) ==
    /\ called' = "create_document"
    /\ IF workspace_id \notin workspaces
       THEN /\ result' = HTTPException(404, "Workspace not found")
            /\ UNCHANGED documents
       ELSE \E document_id \in uuid4.document \ DOMAIN documents :
                LET document == Document(initial_content, owner_id, workspace_id)
                IN /\ documents' = put(documents, document_id, document)
                   /\ result' = Returned(document)
    /\ UNCHANGED <<workspaces, real_time_updates>>
    /\ UNCHANGED <<gambit_vars, resource_vars, sso_vars, notebook_vars>>

update_document(document_id, user_id, new_content, position) ==
    /\ called' = "update_document"
    /\ IF document_id \notin DOMAIN documents
       THEN /\ result' = HTTPException(404, "Document not found")
            /\ UNCHANGED <<documents, real_time_updates>>
       ELSE IF ~may_update(documents[document_id], user_id)
       THEN /\ result' = HTTPException(403, "Insufficient permissions")
            /\ UNCHANGED <<documents, real_time_updates>>
       ELSE LET document == documents[document_id]
                updated ==
                    [document EXCEPT
                        !.content = apply_change(@, new_content, position),
                        !.version = @ + 1]
            IN /\ document.version < MaxVersion
               /\ documents' = put(documents, document_id, updated)
               /\ real_time_updates' =
                      put(real_time_updates, document_id,
                          Append(get(real_time_updates, document_id, <<>>),
                                 CollaborationRequest(document_id, user_id,
                                                      new_content, position)))
               /\ result' = Returned(updated)
    /\ UNCHANGED workspaces
    /\ UNCHANGED <<gambit_vars, resource_vars, sso_vars, notebook_vars>>

add_comment(document_id, user_id) ==
    /\ called' = "add_comment"
    /\ IF document_id \notin DOMAIN documents
       THEN /\ result' = HTTPException(404, "Document not found")
            /\ UNCHANGED documents
       ELSE LET document == documents[document_id]
            IN /\ Len(document.comments) < MaxComments
               /\ documents' =
                      put(documents, document_id,
                          [document EXCEPT !.comments = Append(@, user_id)])
               /\ result' = Returned(user_id)
    /\ UNCHANGED <<workspaces, real_time_updates>>
    /\ UNCHANGED <<gambit_vars, resource_vars, sso_vars, notebook_vars>>

share_document(document_id, user_id, target_user_id, permission) ==
    /\ called' = "share_document"
    /\ IF document_id \notin DOMAIN documents
       THEN /\ result' = HTTPException(404, "Document not found")
            /\ UNCHANGED documents
       ELSE IF ~may_share(documents[document_id], user_id)
       THEN /\ result' = HTTPException(403, "Insufficient permissions")
            /\ UNCHANGED documents
       ELSE LET document == documents[document_id]
                shared ==
                    [document EXCEPT
                        !.permissions = put(@, target_user_id, permission),
                        !.collaborators =
                            IF target_user_id \notin Range(@)
                            THEN Append(@, target_user_id) ELSE @]
            IN /\ documents' = put(documents, document_id, shared)
               /\ result' = Returned(shared)
    /\ UNCHANGED <<workspaces, real_time_updates>>
    /\ UNCHANGED <<gambit_vars, resource_vars, sso_vars, notebook_vars>>

NextWorkspace ==
    \/ \E owner_id \in Users : create_workspace(owner_id)
    \/ \E workspace_id \in uuid4.workspace, owner_id \in Users,
       initial_content \in {<<>>, <<"a">>} :
           create_document(workspace_id, owner_id, initial_content)
    \/ \E document_id \in uuid4.document, user_id \in Users, edit \in Edits :
           update_document(document_id, user_id, edit[1], edit[2])
    \/ \E document_id \in uuid4.document, user_id \in {"bob"} :
           add_comment(document_id, user_id)
    \/ \E document_id \in uuid4.document, user_id \in Users,
       target_user_id \in Users, permission \in DocumentPermission :
           share_document(document_id, user_id, target_user_id, permission)

SpecWorkspace == InitWorkspace /\ [][NextWorkspace]_vars

(***************************************************************************)
(* Properties of the collaborative workspace.                              *)
(***************************************************************************)
\* What the claim calls a document: its record and the updates logged for it.
DocumentState(d) ==
    <<IF d \in DOMAIN documents THEN documents[d] ELSE None,
      get(real_time_updates, d, <<>>)>>

Holds(d, u, levels) ==
    /\ d \in DOMAIN documents
    /\ u \in DOMAIN documents[d].permissions
    /\ documents[d].permissions[u] \in levels

VersionCountsUpdates ==
    \A d \in DOMAIN documents :
        documents[d].version = 1 + Len(get(real_time_updates, d, <<>>))

Rejected ==
    /\ result.kind = "raised"
    /\ result.error = "HTTPException"
    /\ result.status_code \in {403, 404}

C28_Step ==
    /\ called' = "update_document" =>
           \A d \in uuid4.document, u \in Users, edit \in Edits :
               /\ DocumentState(d)' # DocumentState(d)
               /\ update_document(d, u, edit[1], edit[2])
               => Holds(d, u, {"write", "admin"})
    /\ called' = "share_document" =>
           \A d \in uuid4.document, u, target \in Users, p \in DocumentPermission :
               /\ DocumentState(d)' # DocumentState(d)
               /\ share_document(d, u, target, p)
               => Holds(d, u, {"admin"})
    /\ Rejected' => \A d \in uuid4.document : DocumentState(d)' = DocumentState(d)
    /\ VersionCountsUpdates'

\* C28: in every step of the workspace service, update_document changes a
\* document only for a caller holding WRITE or ADMIN on it and
\* share_document only for a caller holding ADMIN; a call rejected with 403
\* or 404 leaves every document's content, version, permissions,
\* collaborators and logged updates as they were; and after the step each
\* document's version is 1 plus the number of updates logged for it.
C28_PermissionsAndVersion == [][C28_Step]_vars

\* A document that was updated twice and shared with a reader has just
\* refused an update.
C28_Witness ==
    /\ called = "update_document"
    /\ Rejected
    /\ result.status_code = 403
    /\ \E d \in DOMAIN documents :
           /\ documents[d].version = 3
           /\ Len(real_time_updates[d]) = 2
           /\ \E u \in DOMAIN documents[d].permissions :
                  documents[d].permissions[u] = "read"

(***************************************************************************)
(* enterprise_sso_service.py: EnterpriseSSOService.                        *)
(*                                                                         *)
(* Time is counted in hours.  A uuid4 is an identifier not in use, and     *)
(* secrets.token_urlsafe(32) is a token that was never issued before: 256  *)
(* random bits do not repeat.  token_history remembers, for that purpose   *)
(* and for the properties, which tokens were issued, which were logged     *)
(* out and which were found expired.                                       *)
(***************************************************************************)
SessionHours == 24  \* timedelta(hours=24)
TickHours == 24     \* how far the clock advances between two calls
MaxClock == 48      \* the clock stops here

OAuthStates == {"s1"}
TokenPool == {"t1", "t2", "t3"}

\* Tokens that are not the key of a session now.
unused_tokens == TokenPool \ DOMAIN active_sessions

\* The values secrets.token_urlsafe(32) can return.
token_urlsafe == TokenPool \ token_history.issued

\* create_or_update_sso_user: the user of this email and provider, created
\* with a new id if there is none.  Gives the user's id and the users.
create_or_update_sso_user(provider_id, email) ==
    LET existing == {id \in DOMAIN sso_users :
                        /\ sso_users[id].email = email
                        /\ sso_users[id].provider_id = provider_id}
    IN IF existing # {}
       THEN {[id |-> id, users |-> sso_users] : id \in existing}
       ELSE {[id |-> id,
              users |-> put(sso_users, id,
                            [email |-> email, provider_id |-> provider_id])] :
                 id \in uuid4.user \ DOMAIN sso_users}

\* The part shared by handle_saml_response and handle_oauth_callback after
\* the check of the login session.
open_session(provider_id, email) ==
    \E user \in create_or_update_sso_user(provider_id, email),
       session_token \in token_urlsafe :
        /\ sso_users' = user.users
        /\ active_sessions' =
               put(active_sessions, session_token,
                   [user_id |-> user.id, provider_id |-> provider_id,
                    created_at |-> utcnow,
                    expires_at |-> utcnow + SessionHours])
        /\ token_history' =
               [token_history EXCEPT !.issued = @ \cup {session_token}]
        /\ result' = Returned([user |-> user.id,
                               session_token |-> session_token])

InitSSO ==
    /\ gambit_idle
    /\ other_services_idle

register_identity_provider ==
    /\ called' = "register_identity_provider"
    /\ \E provider_id \in uuid4.provider \ identity_providers :
           /\ identity_providers' = identity_providers \cup {provider_id}
           /\ result' = Returned(provider_id)
    /\ UNCHANGED <<sso_users, active_sessions, saml_sessions, oauth_sessions,
                   utcnow, token_history>>
    /\ UNCHANGED <<gambit_vars, resource_vars, workspace_vars, notebook_vars>>

initiate_saml_login(provider_id) ==
    /\ called' = "initiate_saml_login"
    /\ IF provider_id \notin identity_providers
       THEN /\ result' = HTTPException(404, "Provider not found")
            /\ UNCHANGED saml_sessions
       ELSE \E request_id \in uuid4.request \ saml_sessions :
                /\ saml_sessions' = saml_sessions \cup {request_id}
                /\ result' = Returned(request_id)
    /\ UNCHANGED <<identity_providers, sso_users, active_sessions,
                   oauth_sessions, utcnow, token_history>>
    /\ UNCHANGED <<gambit_vars, resource_vars, workspace_vars, notebook_vars>>

initiate_oauth_login(provider_id) ==
    /\ called' = "initiate_oauth_login"
    /\ IF provider_id \notin identity_providers
       THEN /\ result' = HTTPException(404, "Provider not found")
            /\ UNCHANGED oauth_sessions
       ELSE \E state \in OAuthStates \ oauth_sessions :
                /\ oauth_sessions' = oauth_sessions \cup {state}
                /\ result' = Returned(state)
    /\ UNCHANGED <<identity_providers, sso_users, active_sessions,
                   saml_sessions, utcnow, token_history>>
    /\ UNCHANGED <<gambit_vars, resource_vars, workspace_vars, notebook_vars>>

handle_saml_response(request_id) ==
    /\ called' = "handle_saml_response"
    /\ IF request_id \notin saml_sessions
       THEN /\ result' = HTTPException(400, "Invalid SAML session")
            /\ UNCHANGED <<sso_users, active_sessions, token_history>>
       ELSE open_session("mock_provider", "user@company.com")
    /\ UNCHANGED <<identity_providers, saml_sessions, oauth_sessions, utcnow>>
    /\ UNCHANGED <<gambit_vars, resource_vars, workspace_vars, notebook_vars>>

handle_oauth_callback(state, provider_id) ==
    /\ called' = "handle_oauth_callback"
    /\ IF state \notin oauth_sessions
       THEN /\ result' = HTTPException(400, "Invalid OAuth state")
            /\ UNCHANGED <<sso_users, active_sessions, token_history>>
       ELSE open_session(provider_id, "oauth.user@company.com")
    /\ UNCHANGED <<identity_providers, saml_sessions, oauth_sessions, utcnow>>
    /\ UNCHANGED <<gambit_vars, resource_vars, workspace_vars, notebook_vars>>

validate_session(session_token) ==
    /\ called' = "validate_session"
    /\ IF session_token \notin DOMAIN active_sessions
       THEN /\ result' = HTTPException(401, "Invalid session token")
            /\ UNCHANGED <<active_sessions, token_history>>
       ELSE LET session == active_sessions[session_token]
            IN IF utcnow > session.expires_at
               THEN /\ active_sessions' = del(active_sessions, session_token)
                    /\ token_history' =
                           [token_history EXCEPT
                               !.found_expired = @ \cup {session_token}]
                    /\ result' = HTTPException(401, "Session expired")
               ELSE IF session.user_id \notin DOMAIN sso_users
               THEN /\ result' = HTTPException(404, "User not found")
                    /\ UNCHANGED <<active_sessions, token_history>>
               ELSE /\ result' = Returned([user |-> session.user_id,
                                           session |-> session,
                                           is_valid |-> TRUE])
                    /\ UNCHANGED <<active_sessions, token_history>>
    /\ UNCHANGED <<identity_providers, sso_users, saml_sessions,
                   oauth_sessions, utcnow>>
    /\ UNCHANGED <<gambit_vars, resource_vars, workspace_vars, notebook_vars>>

logout_user(session_token) ==
    /\ called' = "logout_user"
    /\ IF session_token \in DOMAIN active_sessions
       THEN /\ active_sessions' = del(active_sessions, session_token)
            /\ token_history' =
                   [token_history EXCEPT !.logged_out = @ \cup {session_token}]
            /\ result' = Returned(TRUE)
       ELSE /\ result' = Returned(FALSE)
            /\ UNCHANGED <<active_sessions, token_history>>
    /\ UNCHANGED <<identity_providers, sso_users, saml_sessions,
                   oauth_sessions, utcnow>>
    /\ UNCHANGED <<gambit_vars, resource_vars, workspace_vars, notebook_vars>>

\* Time passes between two calls.
Tick ==
    /\ utcnow < MaxClock
    /\ utcnow' = utcnow + TickHours
    /\ UNCHANGED <<identity_providers, sso_users, active_sessions,
                   saml_sessions, oauth_sessions, token_history>>
    /\ UNCHANGED <<called, result>>
    /\ UNCHANGED <<gambit_vars, resource_vars, workspace_vars, notebook_vars>>

NextSSO ==
    \/ register_identity_provider
    \/ \E provider_id \in uuid4.provider : initiate_saml_login(provider_id)
    \/ \E provider_id \in uuid4.provider : initiate_oauth_login(provider_id)
    \/ \E request_id \in uuid4.request : handle_saml_response(request_id)
    \/ \E state \in OAuthStates : handle_oauth_callback(state, "mock_provider")
    \/ \E session_token \in TokenPool : validate_session(session_token)
    \/ \E session_token \in TokenPool : logout_user(session_token)
    \/ Tick

SpecSSO == InitSSO /\ [][NextSSO]_vars

(***************************************************************************)
(* Properties of the single sign-on service.                               *)
(***************************************************************************)
Fails401 ==
    /\ result.kind = "raised"
    /\ result.error = "HTTPException"
    /\ result.status_code = 401

SessionOf(t) ==
    IF t \in DOMAIN active_sessions THEN active_sessions[t] ELSE None

C29_Step ==
    \A t \in TokenPool :
        /\ validate_session(t) /\ result'.kind = "returned"
               => /\ t \in token_history.issued
                  /\ t \notin token_history.logged_out
                  /\ t \notin token_history.found_expired
        /\ validate_session(t) /\ t \in token_history.logged_out => Fails401'
        /\ logout_user(t) /\ t \in token_history.logged_out
               => result' = Returned(FALSE)
        /\ logout_user(t)
               => \A other \in TokenPool \ {t} : SessionOf(other)' = SessionOf(other)

\* C29: in every step of the service, a validate_session(token) that
\* succeeds is for a token issued by handle_saml_response or
\* handle_oauth_callback that was neither logged out nor found expired; a
\* validate_session for a token that was logged out fails with 401, a
\* logout_user for it returns False, and logout_user leaves the sessions of
\* the other tokens as they were.
C29_SessionLifecycle == [][C29_Step]_vars

\* A token was logged out and validated afterwards while another token's
\* session is still active.
C29_Witness ==
    /\ called = "validate_session"
    /\ Fails401
    /\ token_history.logged_out # {}
    /\ \E t \in DOMAIN active_sessions : t \notin token_history.logged_out
    /\ token_history.found_expired # {}

(***************************************************************************)
(* collaborative_notebooks_service.py: CollaborativeNotebooksService.      *)
(*                                                                         *)
(* A notebook keeps its cells (id, content, version) and its version; a    *)
(* NotebookChange keeps change_type, cell_id, old_content, new_content and *)
(* version.  A uuid4 is an identifier not in use.                          *)
(*                                                                         *)
(* NotebookChange declares old_content, new_content and position as        *)
(* Optional[...] without a default.  The repository pins no pydantic       *)
(* version: pydantic 1 gives such a field the default None, pydantic 2     *)
(* makes it required, and a call that leaves it out raises                 *)
(* ValidationError.  The installed major version is part of the state.     *)
(***************************************************************************)
MaxNotebookVersion == 4     \* no change beyond this notebook version

CellContents == {"x", "y"}

\* NotebookChange(**fields): the model instance, or ValidationError when a
\* required field is left out.
NotebookChange(fields) ==
    LET undefaulted == {"old_content", "new_content", "position"}
    IN IF pydantic_major = 1 \/ undefaulted \subseteq DOMAIN fields
       THEN Returned([f \in DOMAIN fields \cup undefaulted |->
                         IF f \in DOMAIN fields THEN fields[f] ELSE None])
       ELSE Raised("ValidationError")

\* next((c for c in notebook.cells if c.id == cell_id), None)
find_cell(cells, cell_id) ==
    IF \E i \in DOMAIN cells : cells[i].id = cell_id
    THEN cells[CHOOSE i \in DOMAIN cells :
                   /\ cells[i].id = cell_id
                   /\ \A j \in 1..(i - 1) : cells[j].id # cell_id]
    ELSE None

\* notebook.cells.remove(cell): without the first cell equal to it
list_remove(cells, cell) ==
    LET i == CHOOSE k \in DOMAIN cells :
                 cells[k] = cell /\ \A j \in 1..(k - 1) : cells[j] # cell
    IN SubSeq(cells, 1, i - 1) \o SubSeq(cells, i + 1, Len(cells))

\* The last statements of add_cell, update_cell and delete_cell: build the
\* NotebookChange and append it to the log.
log_change(notebook_id, fields, returned) ==
    LET change == NotebookChange(fields)
    IN IF change.kind = "raised"
       THEN /\ result' = change
            /\ UNCHANGED changes
       ELSE /\ changes' = put(changes, notebook_id,
                              Append(changes[notebook_id], change.value))
            /\ result' = Returned(returned)

InitNotebooks ==
    /\ gambit_idle
    /\ resource_idle
    /\ in_memory_services_init
    /\ pydantic_major \in {1, 2}

create_notebook ==
    /\ called' = "create_notebook"
    /\ \E notebook_id \in uuid4.notebook \ DOMAIN notebooks :
           /\ notebooks' = put(notebooks, notebook_id,
                               [cells |-> <<>>, version |-> 1])
           /\ changes' = put(changes, notebook_id, <<>>)
           /\ result' = Returned(notebook_id)
    /\ UNCHANGED pydantic_major
    /\ UNCHANGED <<gambit_vars, resource_vars, workspace_vars, sso_vars>>

add_cell(notebook_id, content) ==
    /\ called' = "add_cell"
    /\ IF notebook_id \notin DOMAIN notebooks
       THEN /\ result' = HTTPException(404, "Notebook not found")
            /\ UNCHANGED <<notebooks, changes>>
       ELSE \E cell_id \in uuid4.cell :
                LET notebook == notebooks[notebook_id]
                    cell == [id |-> cell_id, content |-> content, version |-> 1]
                    added == [notebook EXCEPT !.cells = Append(@, cell),
                                              !.version = @ + 1]
                IN /\ \A c \in Range(notebook.cells) : c.id # cell_id
                   /\ notebook.version < MaxNotebookVersion
                   /\ notebooks' = put(notebooks, notebook_id, added)
                   /\ log_change(notebook_id,
                                 [change_type |-> "insert", cell_id |-> cell_id,
                                  new_content |-> content,
                                  version |-> added.version],
                                 cell)
    /\ UNCHANGED pydantic_major
    /\ UNCHANGED <<gambit_vars, resource_vars, workspace_vars, sso_vars>>

update_cell(notebook_id, cell_id, new_content) ==
    /\ called' = "update_cell"
    /\ IF notebook_id \notin DOMAIN notebooks
       THEN /\ result' = HTTPException(404, "Notebook not found")
            /\ UNCHANGED <<notebooks, changes>>
       ELSE IF find_cell(notebooks[notebook_id].cells, cell_id) = None
       THEN /\ result' = HTTPException(404, "Cell not found")
            /\ UNCHANGED <<notebooks, changes>>
       ELSE LET notebook == notebooks[notebook_id]
                cell == find_cell(notebook.cells, cell_id)
                edited == [cell EXCEPT !.content = new_content,
                                       !.version = @ + 1]
                updated ==
                    [notebook EXCEPT
                        !.cells = [i \in DOMAIN @ |->
                                      IF @[i].id = cell_id THEN edited ELSE @[i]],
                        !.version = @ + 1]
            IN /\ notebook.version < MaxNotebookVersion
               /\ notebooks' = put(notebooks, notebook_id, updated)
               /\ log_change(notebook_id,
                             [change_type |-> "update", cell_id |-> cell_id,
                              old_content |-> cell.content,
                              new_content |-> new_content,
                              version |-> updated.version],
                             edited)
    /\ UNCHANGED pydantic_major
    /\ UNCHANGED <<gambit_vars, resource_vars, workspace_vars, sso_vars>>

delete_cell(notebook_id, cell_id) ==
    /\ called' = "delete_cell"
    /\ IF notebook_id \notin DOMAIN notebooks
       THEN /\ result' = HTTPException(404, "Notebook not found")
            /\ UNCHANGED <<notebooks, changes>>
       ELSE IF find_cell(notebooks[notebook_id].cells, cell_id) = None
       THEN /\ result' = HTTPException(404, "Cell not found")
            /\ UNCHANGED <<notebooks, changes>>
       ELSE LET notebook == notebooks[notebook_id]
                cell == find_cell(notebook.cells, cell_id)
                deleted == [notebook EXCEPT !.cells = list_remove(@, cell),
                                            !.version = @ + 1]
            IN /\ notebook.version < MaxNotebookVersion
               /\ notebooks' = put(notebooks, notebook_id, deleted)
               /\ log_change(notebook_id,
                             [change_type |-> "delete", cell_id |-> cell_id,
                              old_content |-> cell.content,
                              version |-> deleted.version],
                             TRUE)
    /\ UNCHANGED pydantic_major
    /\ UNCHANGED <<gambit_vars, resource_vars, workspace_vars, sso_vars>>

NextNotebooks ==
    \/ create_notebook
    \/ \E notebook_id \in uuid4.notebook, content \in CellContents :
           add_cell(notebook_id, content)
    \/ \E notebook_id \in uuid4.notebook, cell_id \in uuid4.cell,
       new_content \in CellContents :
           update_cell(notebook_id, cell_id, new_content)
    \/ \E notebook_id \in uuid4.notebook, cell_id \in uuid4.cell :
           delete_cell(notebook_id, cell_id)

SpecNotebooks == InitNotebooks /\ [][NextNotebooks]_vars

(***************************************************************************)
(* Properties of the collaborative notebooks.                              *)
(***************************************************************************)
VersionCountsChanges ==
    \A n \in DOMAIN notebooks :
        /\ notebooks[n].version = 1 + Len(changes[n])
        /\ \A i, j \in DOMAIN changes[n] :
               i < j => changes[n][i].version < changes[n][j].version

NotFound ==
    /\ result.kind = "raised"
    /\ result.error = "HTTPException"
    /\ result.status_code = 404

\* C30: after every add_cell, update_cell and delete_cell, successful or
\* rejected with 404, each notebook's version is 1 plus the number of
\* entries of its change log and the entries' versions increase strictly
\* in log order; and a call rejected with 404 changes neither the notebooks
\* nor the logs.
C30_VersionCountsChanges ==
    [][/\ VersionCountsChanges'
       /\ NotFound' => notebooks' = notebooks /\ changes' = changes]_vars

\* The same under pydantic 1 only, where NotebookChange is always built.
C30_UnderPydantic1 ==
    [][pydantic_major = 1 =>
           /\ VersionCountsChanges'
           /\ NotFound' => notebooks' = notebooks /\ changes' = changes]_vars

====
